---- MODULE Spec2Model ----
(***************************************************************************)
(* Secured Air API: the tiered country access policy, the three dataset    *)
(* services (airlines, airports, routes), the JWT credential manager and   *)
(* the HTTP handlers that join them.                                       *)
(*                                                                         *)
(* Modelling conventions                                                   *)
(*  - a JS array is a sequence; a JS object built by reduce() (a           *)
(*    Record<string, T[]>) is the sequence of its [key, items] entries in  *)
(*    insertion order, which is the order Object.keys and JSON.stringify   *)
(*    give for keys that are not integer-like;                             *)
(*  - a thrown Error is the value [threw |-> TRUE, value |-> message];     *)
(*  - a record of a CSV file keeps the fields the policy reads (country,   *)
(*    airport codes) and its row number, which stands for the object's     *)
(*    identity and the remaining columns.                                  *)
(***************************************************************************)
EXTENDS Naturals, Sequences, FiniteSets, TLC

VARIABLES
  airlines,           \* AirlinesService.airlines
  airports,           \* AirportsService.airports
  routes,             \* RoutesService.routes
  airportCountryMap,  \* RoutesService.airportCountryMap (IATA code -> country)
  tierConfigurations, \* the tierConfigurations object of each service
  call,               \* the method invoked last, with its arguments
  ret,                \* what that invocation returned or threw
  now,                \* the server's clock, in minutes since start-up
  req,                \* the HTTP request being answered
  resp,               \* the response sent to it
  jar,                \* the Authorization cookie the client holds
  log                 \* what a caller that compares byTier results has noted

vars ==
  <<airlines, airports, routes, airportCountryMap, tierConfigurations,
    call, ret, now, req, resp, jar, log>>

(***************************************************************************)
(* Bounds of the model                                                     *)
(***************************************************************************)
MaxAirlines == 2
MaxAirports == 2
MaxRoutes == 2
\* How many times the clock advances
MaxTicks == 3

(***************************************************************************)
(* Values                                                                  *)
(***************************************************************************)
FREE == "free"
PRO == "pro"
ELITE == "elite"

\* enum SubscriptionTier / enum UserTier: the three values of the enumeration
SubscriptionTier == {FREE, PRO, ELITE}

\* Tier arguments tried on the service methods: the enumeration and one
\* value outside it (TypeScript's types do not exist at run time).
TierInputs == SubscriptionTier \cup {"admin"}

\* Country fields a CSV row may hold: names inside FREE's list, inside PRO's
\* list only, outside both, the empty field and the literal 'Unknown'.
RecordCountries == {"Israel", "Canada", "Mexico", "", "Unknown"}

\* Country arguments tried on the service methods.
CountryInputs ==
  {"Israel", "israel", "Israel ", "Canada", "United States", "Mexico", "Unknown"}

\* Airport codes appearing in the files; "XXX" is never a row of airports.csv.
IataCodes == {"TLV", "YYZ"}
RouteCodes == IataCodes \cup {"XXX"}

Throw(message) == [threw |-> TRUE, value |-> message]
Return(value) == [threw |-> FALSE, value |-> value]

\* JavaScript's default comparison of strings (by UTF-16 code units), given
\* as the ascending list of every string the model sorts.
CodeUnitOrder ==
  <<"", "Australia", "Brazil", "Canada", "China", "France", "Germany", "India",
    "Israel", "Israel ", "Japan", "Mexico", "United Kingdom", "United States",
    "Unknown", "israel">>

CodeUnitRank(s) == CHOOSE i \in 1..Len(CodeUnitOrder) : CodeUnitOrder[i] = s

\* Array.prototype.includes on an array of strings
includes(arr, x) == \E i \in 1..Len(arr) : arr[i] = x

\* [...new Set(arr)]: the distinct elements in order of first occurrence
RECURSIVE SetOf(_)
SetOf(arr) ==
  IF arr = <<>> THEN <<>>
  ELSE LET init == SetOf(SubSeq(arr, 1, Len(arr) - 1))
           last == arr[Len(arr)]
       IN  IF includes(init, last) THEN init ELSE Append(init, last)

\* Array.prototype.sort() with the default comparator, on strings
RECURSIVE sort(_)
sort(arr) ==
  IF arr = <<>> THEN <<>>
  ELSE LET m == CHOOSE i \in 1..Len(arr) :
                  \A j \in 1..Len(arr) :
                    \/ CodeUnitRank(arr[i]) < CodeUnitRank(arr[j])
                    \/ (CodeUnitRank(arr[i]) = CodeUnitRank(arr[j]) /\ i <= j)
           rest == [k \in 1..(Len(arr) - 1) |-> IF k < m THEN arr[k] ELSE arr[k + 1]]
       IN  <<arr[m]>> \o sort(rest)

\* Object.keys of a grouped object
ObjectKeys(obj) == [i \in 1..Len(obj) |-> obj[i].key]

\* Object.values(obj).flat().length
RECURSIVE FlatLength(_)
FlatLength(obj) ==
  IF obj = <<>> THEN 0 ELSE Len(obj[1].items) + FlatLength(Tail(obj))

\* acc[key] for a grouped object: whether the key is present
HasKey(obj, key) == \E i \in 1..Len(obj) : obj[i].key = key

\* if (!acc[k]) acc[k] = []; acc[k].push(r)
Push(acc, k, r) ==
  IF HasKey(acc, k)
  THEN [i \in 1..Len(acc) |->
          IF acc[i].key = k
          THEN [key |-> k, items |-> Append(acc[i].items, r)]
          ELSE acc[i]]
  ELSE Append(acc, [key |-> k, items |-> <<r>>])

\* The error every method but hasCountryAccess throws for an unknown tier
InvalidTier(tier) == Throw("Invalid subscription tier: " \o tier)

\* `Country '${country}' is not accessible with ${tier} tier`
NotAccessible(tier, country) ==
  Throw("Country '" \o country \o "' is not accessible with " \o tier \o " tier")

(***************************************************************************)
(* AirlinesService                                                         *)
(***************************************************************************)
\* Mutant: the PRO list leaves out the FREE country
AirlinesService_tierConfigurations_proWithoutIsrael ==
  [t \in SubscriptionTier |->
     CASE t = FREE -> [isNull |-> FALSE, countries |-> <<"Israel">>]
       [] t = PRO -> [isNull |-> FALSE, countries |->
            <<"United States", "Canada", "United Kingdom", "Germany",
              "France", "Australia", "Japan", "Brazil", "China", "India">>]
       [] t = ELITE -> [isNull |-> TRUE, countries |-> <<>>]]

\* Mutant: the FREE country is one the PRO list lacks
AirlinesService_constructedTierConfigurations_freeMexico ==
  [t \in SubscriptionTier |->
     CASE t = FREE -> [isNull |-> FALSE, countries |-> <<"Mexico">>]
       [] t = PRO -> [isNull |-> FALSE, countries |->
            <<"Israel", "United States", "Canada", "United Kingdom", "Germany",
              "France", "Australia", "Japan", "Brazil", "China", "India">>]
       [] t = ELITE -> [isNull |-> TRUE, countries |-> <<>>]]

\* The field as its initializer builds it
AirlinesService_constructedTierConfigurations ==
  [t \in SubscriptionTier |->
     CASE t = FREE -> [isNull |-> FALSE, countries |-> <<"Israel">>]
       [] t = PRO -> [isNull |-> FALSE, countries |->
            <<"Israel", "United States", "Canada", "United Kingdom", "Germany",
              "France", "Australia", "Japan", "Brazil", "China", "India">>]
       [] t = ELITE -> [isNull |-> TRUE, countries |-> <<>>]]

\* this.tierConfigurations
AirlinesService_tierConfigurations == tierConfigurations.airlines

RECURSIVE groupAirlinesByCountry(_)
groupAirlinesByCountry(list) ==
  IF list = <<>> THEN <<>>
  ELSE LET acc == groupAirlinesByCountry(SubSeq(list, 1, Len(list) - 1))
           airline == list[Len(list)]
       IN  IF airline.country = "" THEN acc
           ELSE Push(acc, airline.country, airline)

AirlinesService_getAirlinesByTier(tier) ==
  IF tier \notin DOMAIN AirlinesService_tierConfigurations THEN InvalidTier(tier)
  ELSE LET config == AirlinesService_tierConfigurations[tier]
       IN  IF config.isNull THEN Return(groupAirlinesByCountry(airlines))
           ELSE Return(groupAirlinesByCountry(
                  SelectSeq(airlines,
                            LAMBDA airline : includes(config.countries, airline.country))))

AirlinesService_getAirlinesByCountry(tier, country) ==
  IF tier \notin DOMAIN AirlinesService_tierConfigurations THEN InvalidTier(tier)
  ELSE LET config == AirlinesService_tierConfigurations[tier]
       IN  IF ~config.isNull /\ ~includes(config.countries, country)
           THEN NotAccessible(tier, country)
           ELSE Return(SelectSeq(airlines, LAMBDA airline : airline.country = country))

\* Mutant: the configured list is sorted like the unrestricted listing
AirlinesService_getAccessibleCountries_sorted(tier) ==
  IF tier \notin DOMAIN AirlinesService_tierConfigurations THEN InvalidTier(tier)
  ELSE LET config == AirlinesService_tierConfigurations[tier]
       IN  IF config.isNull
           THEN Return(sort(SetOf([i \in 1..Len(airlines) |-> airlines[i].country])))
           ELSE Return(sort(config.countries))

AirlinesService_getAccessibleCountries(tier) ==
  IF tier \notin DOMAIN AirlinesService_tierConfigurations THEN InvalidTier(tier)
  ELSE LET config == AirlinesService_tierConfigurations[tier]
       IN  IF config.isNull
           THEN Return(sort(SetOf([i \in 1..Len(airlines) |-> airlines[i].country])))
           ELSE Return(config.countries)

\* Mutant: the keys are reported in insertion order
AirlinesService_getTierStatistics_unsorted(tier) ==
  LET airlinesByCountry == AirlinesService_getAirlinesByTier(tier)
  IN  IF airlinesByCountry.threw THEN airlinesByCountry
      ELSE LET countries == ObjectKeys(airlinesByCountry.value)
           IN  Return([totalAirlines |-> FlatLength(airlinesByCountry.value),
                       totalCountries |-> Len(countries),
                       countriesWithData |-> countries])

AirlinesService_getTierStatistics(tier) ==
  LET airlinesByCountry == AirlinesService_getAirlinesByTier(tier)
  IN  IF airlinesByCountry.threw THEN airlinesByCountry
      ELSE LET countries == ObjectKeys(airlinesByCountry.value)
           IN  Return([totalAirlines |-> FlatLength(airlinesByCountry.value),
                       totalCountries |-> Len(countries),
                       countriesWithData |-> sort(countries)])

AirlinesService_hasCountryAccess(tier, country) ==
  IF tier \notin DOMAIN AirlinesService_tierConfigurations THEN FALSE
  ELSE LET config == AirlinesService_tierConfigurations[tier]
       IN  IF config.isNull THEN TRUE
           ELSE includes(config.countries, country)

(***************************************************************************)
(* AirportsService                                                         *)
(***************************************************************************)
\* Mutant: the PRO list in another order
AirportsService_constructedTierConfigurations_reordered ==
  [t \in SubscriptionTier |->
     CASE t = FREE -> [isNull |-> FALSE, countries |-> <<"Israel">>]
       [] t = PRO -> [isNull |-> FALSE, countries |->
            <<"Israel", "Canada", "United States", "United Kingdom", "Germany",
              "France", "Australia", "Japan", "Brazil", "China", "India">>]
       [] t = ELITE -> [isNull |-> TRUE, countries |-> <<>>]]

\* The field as its initializer builds it
AirportsService_constructedTierConfigurations ==
  [t \in SubscriptionTier |->
     CASE t = FREE -> [isNull |-> FALSE, countries |-> <<"Israel">>]
       [] t = PRO -> [isNull |-> FALSE, countries |->
            <<"Israel", "United States", "Canada", "United Kingdom", "Germany",
              "France", "Australia", "Japan", "Brazil", "China", "India">>]
       [] t = ELITE -> [isNull |-> TRUE, countries |-> <<>>]]

\* this.tierConfigurations
AirportsService_tierConfigurations == tierConfigurations.airports

RECURSIVE groupAirportsByCountry(_)
groupAirportsByCountry(list) ==
  IF list = <<>> THEN <<>>
  ELSE LET acc == groupAirportsByCountry(SubSeq(list, 1, Len(list) - 1))
           airport == list[Len(list)]
       IN  IF airport.country = "" THEN acc
           ELSE Push(acc, airport.country, airport)

\* Mutant: the tier's list is not applied before grouping
AirportsService_getAirportsByTier_unfiltered(tier) ==
  IF tier \notin DOMAIN AirportsService_tierConfigurations THEN InvalidTier(tier)
  ELSE Return(groupAirportsByCountry(airports))

AirportsService_getAirportsByTier(tier) ==
  IF tier \notin DOMAIN AirportsService_tierConfigurations THEN InvalidTier(tier)
  ELSE LET config == AirportsService_tierConfigurations[tier]
       IN  IF config.isNull THEN Return(groupAirportsByCountry(airports))
           ELSE Return(groupAirportsByCountry(
                  SelectSeq(airports,
                            LAMBDA airport : includes(config.countries, airport.country))))

AirportsService_getAirportsByCountry(tier, country) ==
  IF tier \notin DOMAIN AirportsService_tierConfigurations THEN InvalidTier(tier)
  ELSE LET config == AirportsService_tierConfigurations[tier]
       IN  IF ~config.isNull /\ ~includes(config.countries, country)
           THEN NotAccessible(tier, country)
           ELSE Return(SelectSeq(airports, LAMBDA airport : airport.country = country))

AirportsService_getAccessibleCountries(tier) ==
  IF tier \notin DOMAIN AirportsService_tierConfigurations THEN InvalidTier(tier)
  ELSE LET config == AirportsService_tierConfigurations[tier]
       IN  IF config.isNull
           THEN Return(sort(SetOf([i \in 1..Len(airports) |-> airports[i].country])))
           ELSE Return(config.countries)

AirportsService_getTierStatistics(tier) ==
  LET airportsByCountry == AirportsService_getAirportsByTier(tier)
  IN  IF airportsByCountry.threw THEN airportsByCountry
      ELSE LET countries == ObjectKeys(airportsByCountry.value)
           IN  Return([totalAirports |-> FlatLength(airportsByCountry.value),
                       totalCountries |-> Len(countries),
                       countriesWithData |-> sort(countries)])

\* Mutant: only the first configured country is compared
AirportsService_hasCountryAccess_firstOnly(tier, country) ==
  IF tier \notin DOMAIN AirportsService_tierConfigurations THEN FALSE
  ELSE LET config == AirportsService_tierConfigurations[tier]
       IN  IF config.isNull THEN TRUE
           ELSE config.countries # <<>> /\ config.countries[1] = country

AirportsService_hasCountryAccess(tier, country) ==
  IF tier \notin DOMAIN AirportsService_tierConfigurations THEN FALSE
  ELSE LET config == AirportsService_tierConfigurations[tier]
       IN  IF config.isNull THEN TRUE
           ELSE includes(config.countries, country)

(***************************************************************************)
(* RoutesService                                                           *)
(***************************************************************************)
\* The field as its initializer builds it
RoutesService_constructedTierConfigurations ==
  [t \in SubscriptionTier |->
     CASE t = FREE -> [isNull |-> FALSE, countries |-> <<"Israel">>]
       [] t = PRO -> [isNull |-> FALSE, countries |->
            <<"Israel", "United States", "Canada", "United Kingdom", "Germany",
              "France", "Australia", "Japan", "Brazil", "China", "India">>]
       [] t = ELITE -> [isNull |-> TRUE, countries |-> <<>>]]

\* this.tierConfigurations
RoutesService_tierConfigurations == tierConfigurations.routes

\* loadAirportCountryMap over the rows of airports.csv: a row with a usable
\* IATA code and a country sets map[iata] = country, a later row overriding
\* an earlier one. The map is the set of its (code, country) entries.
RECURSIVE loadAirportCountryMap(_)
loadAirportCountryMap(rows) ==
  IF rows = <<>> THEN [code \in {} |-> ""]
  ELSE LET map == loadAirportCountryMap(SubSeq(rows, 1, Len(rows) - 1))
           row == rows[Len(rows)]
       IN  IF row.iata # "" /\ row.country # "" /\ row.iata # "\\N"
           THEN [code \in DOMAIN map \cup {row.iata} |->
                   IF code = row.iata THEN row.country ELSE map[code]]
           ELSE map

\* this.airportCountryMap.get(code) || 'Unknown'
CountryOfAirport(code) ==
  IF code \in DOMAIN airportCountryMap /\ airportCountryMap[code] # ""
  THEN airportCountryMap[code]
  ELSE "Unknown"

getRouteWithCountries(route) ==
  [row |-> route.row,
   sourceAirport |-> route.sourceAirport,
   destinationAirport |-> route.destinationAirport,
   sourceCountry |-> CountryOfAirport(route.sourceAirport),
   destinationCountry |-> CountryOfAirport(route.destinationAirport)]

\* this.routes.map((route) => this.getRouteWithCountries(route))
routesWithCountries == [i \in 1..Len(routes) |-> getRouteWithCountries(routes[i])]

\* Mutant: routes are grouped under their destination country
RECURSIVE groupRoutesBySourceCountry_byDestination(_)
groupRoutesBySourceCountry_byDestination(list) ==
  IF list = <<>> THEN <<>>
  ELSE LET acc == groupRoutesBySourceCountry_byDestination(SubSeq(list, 1, Len(list) - 1))
           route == list[Len(list)]
       IN  IF route.destinationCountry = "" \/ route.destinationCountry = "Unknown"
           THEN acc
           ELSE Push(acc, route.destinationCountry, route)

RECURSIVE groupRoutesBySourceCountry(_)
groupRoutesBySourceCountry(list) ==
  IF list = <<>> THEN <<>>
  ELSE LET acc == groupRoutesBySourceCountry(SubSeq(list, 1, Len(list) - 1))
           route == list[Len(list)]
       IN  IF route.sourceCountry = "" \/ route.sourceCountry = "Unknown" THEN acc
           ELSE Push(acc, route.sourceCountry, route)

\* Mutant: a list tier is served every route
RoutesService_getRoutesByTier_unfiltered(tier) ==
  IF tier \notin DOMAIN RoutesService_tierConfigurations THEN InvalidTier(tier)
  ELSE Return(groupRoutesBySourceCountry(routesWithCountries))

RoutesService_getRoutesByTier(tier) ==
  IF tier \notin DOMAIN RoutesService_tierConfigurations THEN InvalidTier(tier)
  ELSE LET config == RoutesService_tierConfigurations[tier]
       IN  IF config.isNull THEN Return(groupRoutesBySourceCountry(routesWithCountries))
           ELSE Return(groupRoutesBySourceCountry(
                  SelectSeq(routesWithCountries,
                            LAMBDA route :
                              \/ includes(config.countries, route.sourceCountry)
                              \/ includes(config.countries, route.destinationCountry))))

\* Mutant: only the source country is matched
RoutesService_getRoutesByCountry_sourceOnly(tier, country) ==
  IF tier \notin DOMAIN RoutesService_tierConfigurations THEN InvalidTier(tier)
  ELSE LET config == RoutesService_tierConfigurations[tier]
       IN  IF ~config.isNull /\ ~includes(config.countries, country)
           THEN NotAccessible(tier, country)
           ELSE Return(SelectSeq(routesWithCountries,
                                 LAMBDA route : route.sourceCountry = country))

RoutesService_getRoutesByCountry(tier, country) ==
  IF tier \notin DOMAIN RoutesService_tierConfigurations THEN InvalidTier(tier)
  ELSE LET config == RoutesService_tierConfigurations[tier]
       IN  IF ~config.isNull /\ ~includes(config.countries, country)
           THEN NotAccessible(tier, country)
           ELSE Return(SelectSeq(routesWithCountries,
                                 LAMBDA route :
                                   \/ route.sourceCountry = country
                                   \/ route.destinationCountry = country))

\* `Access to routes between '${s}' and '${d}' requires a higher subscription tier`
PairDenied(sourceCountry, destinationCountry) ==
  Throw("Access to routes between '" \o sourceCountry \o "' and '"
        \o destinationCountry \o "' requires a higher subscription tier")

\* Mutant: the pair is denied only when both sides are outside the list
RoutesService_getRoutesBetweenCountries_eitherSide(tier, sourceCountry, destinationCountry) ==
  IF tier \notin DOMAIN RoutesService_tierConfigurations THEN InvalidTier(tier)
  ELSE LET config == RoutesService_tierConfigurations[tier]
       IN  IF /\ ~config.isNull
              /\ ~includes(config.countries, sourceCountry)
              /\ ~includes(config.countries, destinationCountry)
           THEN PairDenied(sourceCountry, destinationCountry)
           ELSE Return(SelectSeq(routesWithCountries,
                                 LAMBDA route :
                                   /\ route.sourceCountry = sourceCountry
                                   /\ route.destinationCountry = destinationCountry))

RoutesService_getRoutesBetweenCountries(tier, sourceCountry, destinationCountry) ==
  IF tier \notin DOMAIN RoutesService_tierConfigurations THEN InvalidTier(tier)
  ELSE LET config == RoutesService_tierConfigurations[tier]
       IN  IF /\ ~config.isNull
              /\ \/ ~includes(config.countries, sourceCountry)
                 \/ ~includes(config.countries, destinationCountry)
           THEN PairDenied(sourceCountry, destinationCountry)
           ELSE Return(SelectSeq(routesWithCountries,
                                 LAMBDA route :
                                   /\ route.sourceCountry = sourceCountry
                                   /\ route.destinationCountry = destinationCountry))

\* allCountries of getAccessibleCountries: the Set filled route by route,
\* source before destination, 'Unknown' left out
RECURSIVE allCountriesOf(_)
allCountriesOf(list) ==
  IF list = <<>> THEN <<>>
  ELSE LET acc == allCountriesOf(SubSeq(list, 1, Len(list) - 1))
           route == list[Len(list)]
           withSource == IF route.sourceCountry # "Unknown"
                         THEN SetOf(Append(acc, route.sourceCountry)) ELSE acc
       IN  IF route.destinationCountry # "Unknown"
           THEN SetOf(Append(withSource, route.destinationCountry)) ELSE withSource

RoutesService_getAccessibleCountries(tier) ==
  IF tier \notin DOMAIN RoutesService_tierConfigurations THEN InvalidTier(tier)
  ELSE LET config == RoutesService_tierConfigurations[tier]
       IN  IF config.isNull
           THEN Return(sort(allCountriesOf(routesWithCountries)))
           ELSE Return(config.countries)

RoutesService_getTierStatistics(tier) ==
  LET routesByCountry == RoutesService_getRoutesByTier(tier)
  IN  IF routesByCountry.threw THEN routesByCountry
      ELSE LET countries == ObjectKeys(routesByCountry.value)
           IN  Return([totalRoutes |-> FlatLength(routesByCountry.value),
                       totalCountries |-> Len(countries),
                       countriesWithData |-> sort(countries)])

\* Mutant: the country is trimmed and capitalised before the lookup
RoutesService_hasCountryAccess_normalised(tier, country) ==
  IF tier \notin DOMAIN RoutesService_tierConfigurations THEN FALSE
  ELSE LET config == RoutesService_tierConfigurations[tier]
           canonical == IF country \in {"israel", "Israel "} THEN "Israel" ELSE country
       IN  IF config.isNull THEN TRUE
           ELSE includes(config.countries, canonical)

RoutesService_hasCountryAccess(tier, country) ==
  IF tier \notin DOMAIN RoutesService_tierConfigurations THEN FALSE
  ELSE LET config == RoutesService_tierConfigurations[tier]
       IN  IF config.isNull THEN TRUE
           ELSE includes(config.countries, country)

(***************************************************************************)
(* JwtManager (utils/jwtManager.ts) and the jsonwebtoken calls it makes    *)
(***************************************************************************)
\* enum UserTier: the same three strings as SubscriptionTier
UserTier == {"free", "pro", "elite"}

\* JwtManager.secretKey: process.env.JWT_SECRET || 'fallback-secret-key'
secretKey == "fallback-secret-key"

\* JwtManager.expiresIn: process.env.JWT_EXPIRES || '30m', in minutes
expiresIn == 30
\* maxAge of the cookie /token/:tier sets, in the same unit (minutes)
cookieMaxAge == 30

\* A token string is modelled by what jsonwebtoken reads in it: whether it
\* has the shape of a JWT, the key that signed it, and its payload (a JS
\* object: a function whose domain holds the claims that are present).
\* undefined, null and '' are the three falsy values a caller may pass.
Jwt(key, payload) == [form |-> "jwt", key |-> key, payload |-> payload]
Malformed == [form |-> "malformed", key |-> "", payload |-> <<>>]
Undefined == [form |-> "undefined", key |-> "", payload |-> <<>>]
Null == [form |-> "null", key |-> "", payload |-> <<>>]
EmptyString == [form |-> "empty", key |-> "", payload |-> <<>>]

\* !token
Falsy(token) == token.form \in {"undefined", "null", "empty"}

\* obj.claim, undefined when the claim is absent
HasClaim(payload, claim) == claim \in DOMAIN payload

\* jwt.sign(payload, key, {expiresIn}): iat is the clock, exp = iat + expiresIn
jwt_sign(payload, key) ==
  Jwt(key, [claim \in DOMAIN payload \cup {"iat", "exp"} |->
              CASE claim = "iat" -> now
                [] claim = "exp" -> now + expiresIn
                [] OTHER -> payload[claim]])

\* Mutant: a token is still accepted at the instant of its exp
jwt_verify_lateExpiry(token, key) ==
  CASE token.form # "jwt" ->
         [threw |-> TRUE, class |-> "JsonWebTokenError", value |-> "jwt malformed"]
    [] token.form = "jwt" /\ token.key # key ->
         [threw |-> TRUE, class |-> "JsonWebTokenError", value |-> "invalid signature"]
    [] OTHER ->
         IF HasClaim(token.payload, "nbf") /\ token.payload.nbf > now
         THEN [threw |-> TRUE, class |-> "NotBeforeError", value |-> "jwt not active"]
         ELSE IF HasClaim(token.payload, "exp") /\ now > token.payload.exp
         THEN [threw |-> TRUE, class |-> "TokenExpiredError", value |-> "jwt expired"]
         ELSE [threw |-> FALSE, class |-> "", value |-> token.payload]

\* jwt.verify(token, key): the payload, or the error it throws. The checks
\* run in jsonwebtoken's order: shape, signature, nbf, exp.
jwt_verify(token, key) ==
  CASE token.form # "jwt" ->
         [threw |-> TRUE, class |-> "JsonWebTokenError", value |-> "jwt malformed"]
    [] token.form = "jwt" /\ token.key # key ->
         [threw |-> TRUE, class |-> "JsonWebTokenError", value |-> "invalid signature"]
    [] OTHER ->
         IF HasClaim(token.payload, "nbf") /\ token.payload.nbf > now
         THEN [threw |-> TRUE, class |-> "NotBeforeError", value |-> "jwt not active"]
         ELSE IF HasClaim(token.payload, "exp") /\ now >= token.payload.exp
         THEN [threw |-> TRUE, class |-> "TokenExpiredError", value |-> "jwt expired"]
         ELSE [threw |-> FALSE, class |-> "", value |-> token.payload]

\* error instanceof C: TokenExpiredError and NotBeforeError extend
\* JsonWebTokenError in jsonwebtoken
InstanceOf(error, class) ==
  \/ error.class = class
  \/ class = "JsonWebTokenError" /\ error.class \in {"TokenExpiredError", "NotBeforeError"}

\* Mutant: FREE is signed like the other tiers
JwtManager_generateToken_signsFree(tier) ==
  jwt_sign([claim \in {"tier"} |-> tier], secretKey)

JwtManager_generateToken(tier) ==
  IF tier = "free" THEN Null
  ELSE jwt_sign([claim \in {"tier"} |-> tier], secretKey)

\* Mutant: the catch block tests JsonWebTokenError before its subclass
JwtManager_verifyToken_baseClassFirst(token) ==
  IF Falsy(token) THEN [isValid |-> FALSE, error |-> "No token provided"]
  ELSE LET verified == jwt_verify(token, secretKey)
       IN  IF ~verified.threw
           THEN LET payload == verified.value
                IN  IF ~(HasClaim(payload, "tier") /\ payload.tier \in UserTier)
                    THEN [isValid |-> FALSE, error |-> "Invalid tier in token"]
                    ELSE [isValid |-> TRUE, payload |-> payload, tier |-> payload.tier]
           ELSE [isValid |-> FALSE,
                 error |-> IF InstanceOf(verified, "JsonWebTokenError")
                           THEN "Invalid token"
                           ELSE IF InstanceOf(verified, "TokenExpiredError")
                           THEN "Token has expired"
                           ELSE "Token verification failed"]

\* A TokenValidationResult holds only the fields the code assigns
JwtManager_verifyToken(token) ==
  IF Falsy(token) THEN [isValid |-> FALSE, error |-> "No token provided"]
  ELSE LET verified == jwt_verify(token, secretKey)
       IN  IF ~verified.threw
           THEN LET payload == verified.value
                IN  IF ~(HasClaim(payload, "tier") /\ payload.tier \in UserTier)
                    THEN [isValid |-> FALSE, error |-> "Invalid tier in token"]
                    ELSE [isValid |-> TRUE, payload |-> payload, tier |-> payload.tier]
           ELSE [isValid |-> FALSE,
                 error |-> IF InstanceOf(verified, "TokenExpiredError")
                           THEN "Token has expired"
                           ELSE IF InstanceOf(verified, "JsonWebTokenError")
                           THEN "Invalid token"
                           ELSE IF InstanceOf(verified, "NotBeforeError")
                           THEN "Token not active yet"
                           ELSE "Token verification failed"]

\* tierHierarchy
tierHierarchy(tier) ==
  CASE tier = "free" -> 0
    [] tier = "pro" -> 1
    [] tier = "elite" -> 2

\* Mutant: a token of exactly the required tier is refused
JwtManager_validateTierAccess_strictlyAbove(token, requiredTier) ==
  IF requiredTier = "free" THEN [isValid |-> TRUE, tier |-> "free"]
  ELSE IF Falsy(token)
  THEN [isValid |-> FALSE, error |-> requiredTier \o " tier requires authentication"]
  ELSE LET validation == JwtManager_verifyToken(token)
       IN  IF ~validation.isValid THEN validation
           ELSE LET userTier == validation.payload.tier
                IN  IF tierHierarchy(userTier) <= tierHierarchy(requiredTier)
                    THEN [isValid |-> FALSE,
                          error |-> "Insufficient permissions. Required: "
                                      \o requiredTier \o ", Current: " \o userTier]
                    ELSE validation

JwtManager_validateTierAccess(token, requiredTier) ==
  IF requiredTier = "free" THEN [isValid |-> TRUE, tier |-> "free"]
  ELSE IF Falsy(token)
  THEN [isValid |-> FALSE, error |-> requiredTier \o " tier requires authentication"]
  ELSE LET validation == JwtManager_verifyToken(token)
       IN  IF ~validation.isValid THEN validation
           ELSE LET userTier == validation.payload.tier
                IN  IF tierHierarchy(userTier) < tierHierarchy(requiredTier)
                    THEN [isValid |-> FALSE,
                          error |-> "Insufficient permissions. Required: "
                                      \o requiredTier \o ", Current: " \o userTier]
                    ELSE validation

JwtManager_getTierFeatures(tier) ==
  CASE tier = "free" -> <<"basic_access">>
    [] tier = "pro" -> <<"basic_access", "pro_features">>
    [] tier = "elite" -> <<"basic_access", "pro_features", "elite_features">>
    [] OTHER -> <<>>

(***************************************************************************)
(* The files the constructors load                                         *)
(***************************************************************************)
\* airlines.csv after parseCsvLine: row i is an airline of some country
AirlineFiles ==
  UNION {{[i \in 1..n |-> [row |-> i, country |-> f[i]]] :
            f \in [1..n -> RecordCountries]} : n \in 0..MaxAirlines}

\* (iata, country) columns of a row of airports.csv: resolvable airports of
\* the three kinds of country, a row without a country, a row without an
\* IATA code ("\N" in the data), a row whose country reads 'Unknown'
AirportRowInputs ==
  {<<"TLV", "Israel">>, <<"YYZ", "Canada">>, <<"YYZ", "Mexico">>,
   <<"TLV", "">>, <<"\\N", "Israel">>, <<"YYZ", "Unknown">>}

AirportFiles ==
  UNION {{[i \in 1..n |-> [row |-> i, iata |-> f[i][1], country |-> f[i][2]]] :
            f \in [1..n -> AirportRowInputs]} : n \in 0..MaxAirports}

RouteFiles ==
  UNION {{[i \in 1..n |-> [row |-> i, sourceAirport |-> f[i][1],
                           destinationAirport |-> f[i][2]]] :
            f \in [1..n -> RouteCodes \X RouteCodes]} : n \in 0..MaxRoutes}

\* The files used while another one varies
SampleAirlines ==
  <<[row |-> 1, country |-> "Canada"], [row |-> 2, country |-> "Israel"]>>
SampleAirports ==
  <<[row |-> 1, iata |-> "TLV", country |-> "Israel"],
    [row |-> 2, iata |-> "YYZ", country |-> "Canada"]>>
SampleRoutes ==
  <<[row |-> 1, sourceAirport |-> "YYZ", destinationAirport |-> "TLV"],
    [row |-> 2, sourceAirport |-> "TLV", destinationAirport |-> "XXX"]>>

\* The policy objects of the three singletons after construction
Constructed ==
  [airlines |-> AirlinesService_constructedTierConfigurations,
   airports |-> AirportsService_constructedTierConfigurations,
   routes |-> RoutesService_constructedTierConfigurations]

\* The three singletons after construction. AirportsService and
\* RoutesService read the same airports.csv. One file at a time ranges over
\* its bounded set: the services share nothing but that file.
Loaded ==
  /\ \/ airlines \in AirlineFiles /\ airports = SampleAirports /\ routes = SampleRoutes
     \/ airlines = SampleAirlines /\ airports \in AirportFiles /\ routes = SampleRoutes
     \/ airlines = SampleAirlines /\ airports = SampleAirports /\ routes \in RouteFiles
  /\ airportCountryMap = loadAirportCountryMap(airports)
  /\ tierConfigurations = Constructed

NoCall == [svc |-> "none", op |-> "none", args |-> <<>>]

NoRequest == [route |-> "none"]
NoResponse == [status |-> 0]

\* The client holds no cookie
EmptyJar == <<>>

\* The notes of a caller that compares the results of byTier: the first
\* byTier invocation it made and whether it made other invocations since.
\* A caller that compares nothing keeps no notes.
NoNotes == [comparing |-> FALSE, first |-> <<>>, between |-> FALSE]
FreshNotes == [comparing |-> TRUE, first |-> <<>>, between |-> FALSE]

Note(svc, op, args, result) ==
  IF ~log.comparing THEN log
  ELSE IF log.first = <<>>
  THEN IF op = "byTier"
       THEN [log EXCEPT !.first = <<[svc |-> svc, tier |-> args[1], result |-> result]>>]
       ELSE log
  ELSE IF op = "byTier" /\ svc = log.first[1].svc /\ args[1] = log.first[1].tier
  THEN log
  ELSE [log EXCEPT !.between = TRUE]

Init ==
  /\ Loaded
  /\ call = NoCall
  /\ ret = Return(<<>>)
  /\ now = 0
  /\ req = NoRequest
  /\ resp = NoResponse
  /\ jar = EmptyJar
  /\ log = NoNotes

data == <<airlines, airports, routes, airportCountryMap, tierConfigurations>>
http == <<req, resp, jar>>

\* No invocation is in progress: the caller has taken the last result.
Idle == call = NoCall

\* Array.prototype.reverse
Reverse(arr) == [i \in 1..Len(arr) |-> arr[Len(arr) + 1 - i]]

\* Mutant: a read reverses the loaded arrays in place
Invoke_reversingInPlace(svc, op, args, result) ==
  /\ call' = [svc |-> svc, op |-> op, args |-> args]
  /\ ret' = result
  /\ log' = Note(svc, op, args, result)
  /\ airlines' = Reverse(airlines)
  /\ airports' = Reverse(airports)
  /\ routes' = Reverse(routes)
  /\ UNCHANGED <<airportCountryMap, tierConfigurations, now, http>>

\* The bookkeeping of an invocation: what was called and what came back.
\* No service method assigns a field of its service.
Invoke(svc, op, args, result) ==
  /\ call' = [svc |-> svc, op |-> op, args |-> args]
  /\ ret' = result
  /\ log' = Note(svc, op, args, result)
  /\ UNCHANGED <<data, now, http>>

\* The caller takes the result.
TakeResult ==
  /\ ~Idle
  /\ call' = NoCall
  /\ ret' = Return(<<>>)
  /\ UNCHANGED <<data, now, http, log>>

(***************************************************************************)
(* One action per public service method                                    *)
(***************************************************************************)
GetAirlinesByTier ==
  /\ Idle
  /\ \E tier \in TierInputs :
       Invoke("airlines", "byTier", <<tier>>, AirlinesService_getAirlinesByTier(tier))

GetAirlinesByCountry ==
  /\ Idle
  /\ \E tier \in TierInputs, country \in CountryInputs :
       Invoke("airlines", "byCountry", <<tier, country>>,
              AirlinesService_getAirlinesByCountry(tier, country))

GetAirlinesAccessibleCountries ==
  /\ Idle
  /\ \E tier \in TierInputs :
       Invoke("airlines", "accessibleCountries", <<tier>>,
              AirlinesService_getAccessibleCountries(tier))

GetAirlinesTierStatistics ==
  /\ Idle
  /\ \E tier \in TierInputs :
       Invoke("airlines", "statistics", <<tier>>, AirlinesService_getTierStatistics(tier))

AirlinesHasCountryAccess ==
  /\ Idle
  /\ \E tier \in TierInputs, country \in CountryInputs :
       Invoke("airlines", "hasCountryAccess", <<tier, country>>,
              Return(AirlinesService_hasCountryAccess(tier, country)))

GetAirportsByTier ==
  /\ Idle
  /\ \E tier \in TierInputs :
       Invoke("airports", "byTier", <<tier>>, AirportsService_getAirportsByTier(tier))

GetAirportsByCountry ==
  /\ Idle
  /\ \E tier \in TierInputs, country \in CountryInputs :
       Invoke("airports", "byCountry", <<tier, country>>,
              AirportsService_getAirportsByCountry(tier, country))

GetAirportsAccessibleCountries ==
  /\ Idle
  /\ \E tier \in TierInputs :
       Invoke("airports", "accessibleCountries", <<tier>>,
              AirportsService_getAccessibleCountries(tier))

GetAirportsTierStatistics ==
  /\ Idle
  /\ \E tier \in TierInputs :
       Invoke("airports", "statistics", <<tier>>, AirportsService_getTierStatistics(tier))

AirportsHasCountryAccess ==
  /\ Idle
  /\ \E tier \in TierInputs, country \in CountryInputs :
       Invoke("airports", "hasCountryAccess", <<tier, country>>,
              Return(AirportsService_hasCountryAccess(tier, country)))

GetRoutesByTier ==
  /\ Idle
  /\ \E tier \in TierInputs :
       Invoke("routes", "byTier", <<tier>>, RoutesService_getRoutesByTier(tier))

GetRoutesByCountry ==
  /\ Idle
  /\ \E tier \in TierInputs, country \in CountryInputs :
       Invoke("routes", "byCountry", <<tier, country>>,
              RoutesService_getRoutesByCountry(tier, country))

GetRoutesBetweenCountries ==
  /\ Idle
  /\ \E tier \in TierInputs, sourceCountry \in CountryInputs,
       destinationCountry \in CountryInputs :
       Invoke("routes", "betweenCountries", <<tier, sourceCountry, destinationCountry>>,
              RoutesService_getRoutesBetweenCountries(tier, sourceCountry,
                                                      destinationCountry))

GetRoutesAccessibleCountries ==
  /\ Idle
  /\ \E tier \in TierInputs :
       Invoke("routes", "accessibleCountries", <<tier>>,
              RoutesService_getAccessibleCountries(tier))

GetRoutesTierStatistics ==
  /\ Idle
  /\ \E tier \in TierInputs :
       Invoke("routes", "statistics", <<tier>>, RoutesService_getTierStatistics(tier))

RoutesHasCountryAccess ==
  /\ Idle
  /\ \E tier \in TierInputs, country \in CountryInputs :
       Invoke("routes", "hasCountryAccess", <<tier, country>>,
              Return(RoutesService_hasCountryAccess(tier, country)))

Next ==
  \/ GetAirlinesByTier
  \/ GetAirlinesByCountry
  \/ GetAirlinesAccessibleCountries
  \/ GetAirlinesTierStatistics
  \/ AirlinesHasCountryAccess
  \/ GetAirportsByTier
  \/ GetAirportsByCountry
  \/ GetAirportsAccessibleCountries
  \/ GetAirportsTierStatistics
  \/ AirportsHasCountryAccess
  \/ GetRoutesByTier
  \/ GetRoutesByCountry
  \/ GetRoutesBetweenCountries
  \/ GetRoutesAccessibleCountries
  \/ GetRoutesTierStatistics
  \/ RoutesHasCountryAccess
  \/ TakeResult

Spec == Init /\ [][Next]_vars

\* The services on the sample files or on empty ones, with a caller that
\* compares what byTier returns
InitReads ==
  /\ \/ airlines = SampleAirlines /\ airports = SampleAirports /\ routes = SampleRoutes
     \/ airlines = <<>> /\ airports = <<>> /\ routes = <<>>
  /\ airportCountryMap = loadAirportCountryMap(airports)
  /\ tierConfigurations = Constructed
  /\ call = NoCall
  /\ ret = Return(<<>>)
  /\ now = 0
  /\ req = NoRequest
  /\ resp = NoResponse
  /\ jar = EmptyJar
  /\ log = FreshNotes

SpecReads == InitReads /\ [][Next]_vars

(***************************************************************************)
(* HTTP layer: the middleware and the four routers                         *)
(***************************************************************************)
\* An Authorization header or cookie value: absent, or the string
\* "<scheme> <token>" ("Bearer <jwt>"), or a bare "<token>" (scheme "").
Absent == [present |-> FALSE, scheme |-> "", token |-> Undefined]
Credential(scheme, token) == [present |-> TRUE, scheme |-> scheme, token |-> token]

\* authHeader?.startsWith('Bearer ') ? authHeader.slice(7) : null
BearerToken(authHeader) ==
  IF authHeader.present /\ authHeader.scheme = "Bearer" THEN authHeader.token ELSE Null

\* !req.cookies.Authorization: no cookie, or an empty one
NoCookie(cookie) == ~cookie.present \/ (cookie.scheme = "" /\ cookie.token = EmptyString)

\* req.cookies.Authorization.split(' ')[1]
SecondWord(cookie) == IF cookie.scheme = "" THEN Undefined ELSE cookie.token

Services == {"airlines", "airports", "routes"}

Json(status, body) == [status |-> status, body |-> body, cookies |-> <<>>]

\* The methods of a service (or of the token issuer) that a handler invoked
\* before it answered, in order; the response is sent with this record
Calling(svc, ops) == [calls |-> [i \in 1..Len(ops) |-> [svc |-> svc, op |-> ops[i]]]]
NoCalls == [calls |-> <<>>]

\* validation.payload?.tier || UserTier.FREE
PayloadTierOrFree(validation) ==
  IF "payload" \in DOMAIN validation /\ HasClaim(validation.payload, "tier")
  THEN validation.payload.tier
  ELSE "free"

\* featureAccess.ts: requireFeature(featureId); [next |-> TRUE] stands for next()
\* Mutant: a token that does not verify is treated as no token
requireFeature_lenient(featureId, request) ==
  LET token == BearerToken(request.authorization)
      validation == JwtManager_verifyToken(token)
      userTier == IF Falsy(token) THEN "free" ELSE PayloadTierOrFree(validation)
      userFeatures == JwtManager_getTierFeatures(userTier)
  IN  IF ~includes(userFeatures, featureId)
      THEN [next |-> FALSE,
            response |-> Json(403, [error |-> "Access denied",
                                    message |-> "Feature '" \o featureId
                                                  \o "' requires a higher tier",
                                    requiredFeature |-> featureId,
                                    userTier |-> userTier,
                                    userFeatures |-> userFeatures])]
      ELSE [next |-> TRUE, response |-> Json(0, <<>>)]

requireFeature(featureId, request) ==
  LET token == BearerToken(request.authorization)
      validation == JwtManager_verifyToken(token)
      userTier == IF Falsy(token) THEN "free" ELSE PayloadTierOrFree(validation)
      userFeatures == JwtManager_getTierFeatures(userTier)
  IN  IF ~Falsy(token) /\ ~validation.isValid
      THEN [next |-> FALSE,
            response |-> Json(401, [error |-> "Invalid token",
                                    message |-> validation.error])]
      ELSE IF ~includes(userFeatures, featureId)
      THEN [next |-> FALSE,
            response |-> Json(403, [error |-> "Access denied",
                                    message |-> "Feature '" \o featureId
                                                  \o "' requires a higher tier",
                                    requiredFeature |-> featureId,
                                    userTier |-> userTier,
                                    userFeatures |-> userFeatures])]
      ELSE [next |-> TRUE, response |-> Json(0, <<>>)]

basicAccess(request) == requireFeature("basic_access", request)

\* validateData(countryParamsSchema | countriesParamsSchema | tierParamsSchema |
\* tokenCreateSchema, 'params'): the names of the parameters zod rejects
InvalidParams(params) ==
  {name \in DOMAIN params :
     \/ name \in {"country", "sourceCountry", "destinationCountry"} /\ params[name] = ""
     \/ name = "tier" /\ params[name] \notin UserTier}

\* Mutant: the schema is not applied
validateData_unchecked(params) == [next |-> TRUE, response |-> Json(0, <<>>)]

validateData(params) ==
  IF InvalidParams(params) = {}
  THEN [next |-> TRUE, response |-> Json(0, <<>>)]
  ELSE [next |-> FALSE,
        response |-> Json(400, [error |-> "Invalid data", details |-> InvalidParams(params)])]

\* Mutant: the switch falls through to the next tier
mapUserTierToSubscriptionTier_shifted(userTier) ==
  CASE userTier = "free" -> PRO
    [] userTier = "pro" -> ELITE
    [] userTier = "elite" -> ELITE
    [] OTHER -> FREE

\* The same function in the three data routers
mapUserTierToSubscriptionTier(userTier) ==
  CASE userTier = "free" -> FREE
    [] userTier = "pro" -> PRO
    [] userTier = "elite" -> ELITE
    [] OTHER -> FREE

\* Mutant: the cookie's token is decoded, not verified
getUserTier_decodeOnly(request) ==
  IF NoCookie(request.cookie) THEN "free"
  ELSE LET token == SecondWord(request.cookie)
       IN  IF token.form = "jwt" /\ HasClaim(token.payload, "tier")
           THEN token.payload.tier
           ELSE "free"

\* Mutant: without a cookie the tier is taken from the bearer header
getUserTier_headerFallback(request) ==
  IF NoCookie(request.cookie)
  THEN PayloadTierOrFree(JwtManager_verifyToken(BearerToken(request.authorization)))
  ELSE PayloadTierOrFree(JwtManager_verifyToken(SecondWord(request.cookie)))

\* The same function in the three data routers
getUserTier(request) ==
  IF NoCookie(request.cookie) THEN "free"
  ELSE PayloadTierOrFree(JwtManager_verifyToken(SecondWord(request.cookie)))

\* The singleton a router imports
Service_getByTier(svc, tier) ==
  CASE svc = "airlines" -> AirlinesService_getAirlinesByTier(tier)
    [] svc = "airports" -> AirportsService_getAirportsByTier(tier)
    [] svc = "routes" -> RoutesService_getRoutesByTier(tier)

Service_getByCountry(svc, tier, country) ==
  CASE svc = "airlines" -> AirlinesService_getAirlinesByCountry(tier, country)
    [] svc = "airports" -> AirportsService_getAirportsByCountry(tier, country)
    [] svc = "routes" -> RoutesService_getRoutesByCountry(tier, country)

Service_getAccessibleCountries(svc, tier) ==
  CASE svc = "airlines" -> AirlinesService_getAccessibleCountries(tier)
    [] svc = "airports" -> AirportsService_getAccessibleCountries(tier)
    [] svc = "routes" -> RoutesService_getAccessibleCountries(tier)

\* getTierStatistics; the total is totalAirlines, totalAirports or totalRoutes
Service_getTierStatistics(svc, tier) ==
  LET statistics ==
        CASE svc = "airlines" -> AirlinesService_getTierStatistics(tier)
          [] svc = "airports" -> AirportsService_getTierStatistics(tier)
          [] svc = "routes" -> RoutesService_getTierStatistics(tier)
  IN  IF statistics.threw THEN statistics
      ELSE Return([total |-> CASE svc = "airlines" -> statistics.value.totalAirlines
                               [] svc = "airports" -> statistics.value.totalAirports
                               [] svc = "routes" -> statistics.value.totalRoutes,
                   totalCountries |-> statistics.value.totalCountries,
                   countriesWithData |-> statistics.value.countriesWithData])

Service_hasCountryAccess(svc, tier, country) ==
  CASE svc = "airlines" -> AirlinesService_hasCountryAccess(tier, country)
    [] svc = "airports" -> AirportsService_hasCountryAccess(tier, country)
    [] svc = "routes" -> RoutesService_hasCountryAccess(tier, country)

\* catch (error) { res.status(500).json({success: false, error: error.message}) }
InternalError(message) == Json(500, [success |-> FALSE, error |-> message])

\* error.message.includes(text), for the messages the services throw
MessageIncludes(message, text) ==
  \/ text = "not accessible"
       /\ \E t \in TierInputs, c \in CountryInputs : message = NotAccessible(t, c).value
  \/ text = "requires a higher subscription tier"
       /\ \E c, d \in CountryInputs : message = PairDenied(c, d).value

\* GET /<svc>
ListHandler(svc, request) ==
  LET userTier == getUserTier(request)
      subscriptionTier == mapUserTierToSubscriptionTier(userTier)
      byTier == Service_getByTier(svc, subscriptionTier)
      statistics == Service_getTierStatistics(svc, subscriptionTier)
  IN  IF byTier.threw THEN Calling(svc, <<"byTier">>) @@ InternalError(byTier.value)
      ELSE IF statistics.threw THEN Calling(svc, <<"byTier", "statistics">>)
                                      @@ InternalError(statistics.value)
      ELSE Calling(svc, <<"byTier", "statistics">>) @@ Json(200, [success |-> TRUE,
                      tier |-> userTier,
                      data |-> byTier.value,
                      metadata |-> [total |-> statistics.value.total,
                                    totalCountries |-> statistics.value.totalCountries,
                                    accessibleCountries |->
                                      statistics.value.countriesWithData]])

\* GET /<svc>/countries
CountriesHandler(svc, request) ==
  LET userTier == getUserTier(request)
      subscriptionTier == mapUserTierToSubscriptionTier(userTier)
      accessibleCountries == Service_getAccessibleCountries(svc, subscriptionTier)
  IN  IF accessibleCountries.threw THEN Calling(svc, <<"accessibleCountries">>)
                                          @@ InternalError(accessibleCountries.value)
      ELSE Calling(svc, <<"accessibleCountries">>) @@ Json(200, [success |-> TRUE,
                      tier |-> userTier,
                      countries |-> accessibleCountries.value,
                      totalCount |-> Len(accessibleCountries.value)])

\* The country the 403 of /country/:country reports as free
FreeCountryOf(svc) == IF svc = "routes" THEN "Israel" ELSE "United States"

\* Mutant: the handler leaves the decision to the service and reports the
\* error the service throws
CountryHandler_serviceReason(svc, request) ==
  LET userTier == getUserTier(request)
      subscriptionTier == mapUserTierToSubscriptionTier(userTier)
      country == request.params.country
      records == Service_getByCountry(svc, subscriptionTier, country)
  IN  IF records.threw
      THEN IF MessageIncludes(records.value, "not accessible")
           THEN Calling(svc, <<"byCountry">>)
                  @@ Json(403, [success |-> FALSE, error |-> records.value])
           ELSE Calling(svc, <<"byCountry">>) @@ InternalError(records.value)
      ELSE Calling(svc, <<"byCountry">>) @@ Json(200, [success |-> TRUE,
                      tier |-> userTier,
                      country |-> country,
                      records |-> records.value,
                      count |-> Len(records.value)])

\* GET /<svc>/country/:country
CountryHandler(svc, request) ==
  LET userTier == getUserTier(request)
      subscriptionTier == mapUserTierToSubscriptionTier(userTier)
      country == request.params.country
      records == Service_getByCountry(svc, subscriptionTier, country)
  IN  IF ~Service_hasCountryAccess(svc, subscriptionTier, country)
      THEN Calling(svc, <<"hasCountryAccess">>) @@ Json(403, [success |-> FALSE,
                      error |-> "Access to '" \o country
                                  \o "' requires a higher subscription tier",
                      currentTier |-> userTier,
                      requiredTier |-> IF country = FreeCountryOf(svc)
                                       THEN "free" ELSE "pro"])
      ELSE IF records.threw
      THEN IF MessageIncludes(records.value, "not accessible")
           THEN Calling(svc, <<"hasCountryAccess", "byCountry">>)
                  @@ Json(403, [success |-> FALSE, error |-> records.value])
           ELSE Calling(svc, <<"hasCountryAccess", "byCountry">>)
                  @@ InternalError(records.value)
      ELSE Calling(svc, <<"hasCountryAccess", "byCountry">>)
             @@ Json(200, [success |-> TRUE,
                      tier |-> userTier,
                      country |-> country,
                      records |-> records.value,
                      count |-> Len(records.value)])

\* GET /routes/from/:sourceCountry/to/:destinationCountry
BetweenHandler(request) ==
  LET userTier == getUserTier(request)
      subscriptionTier == mapUserTierToSubscriptionTier(userTier)
      sourceCountry == request.params.sourceCountry
      destinationCountry == request.params.destinationCountry
      found == RoutesService_getRoutesBetweenCountries(subscriptionTier, sourceCountry,
                                                       destinationCountry)
  IN  IF \/ ~RoutesService_hasCountryAccess(subscriptionTier, sourceCountry)
         \/ ~RoutesService_hasCountryAccess(subscriptionTier, destinationCountry)
      THEN Calling("routes",
                   IF ~RoutesService_hasCountryAccess(subscriptionTier, sourceCountry)
                   THEN <<"hasCountryAccess">>
                   ELSE <<"hasCountryAccess", "hasCountryAccess">>)
           @@ Json(403, [success |-> FALSE,
                      error |-> PairDenied(sourceCountry, destinationCountry).value,
                      currentTier |-> userTier,
                      requiredTier |->
                        IF sourceCountry = "Israel" /\ destinationCountry = "Israel"
                        THEN "free" ELSE "pro"])
      ELSE IF found.threw
      THEN IF MessageIncludes(found.value, "requires a higher subscription tier")
           THEN Calling("routes", <<"hasCountryAccess", "hasCountryAccess", "betweenCountries">>)
                  @@ Json(403, [success |-> FALSE, error |-> found.value])
           ELSE Calling("routes", <<"hasCountryAccess", "hasCountryAccess", "betweenCountries">>)
                  @@ InternalError(found.value)
      ELSE Calling("routes", <<"hasCountryAccess", "hasCountryAccess", "betweenCountries">>)
             @@ Json(200, [success |-> TRUE,
                      tier |-> userTier,
                      sourceCountry |-> sourceCountry,
                      destinationCountry |-> destinationCountry,
                      routes |-> found.value,
                      count |-> Len(found.value)])

\* tierBenefits[userTier] of /statistics
TierBenefits(svc, userTier) ==
  CASE userTier = "free" ->
         IF svc = "routes" THEN "Access to Israel routes only"
         ELSE "Access to United States " \o svc \o " only"
    [] userTier = "pro" ->
         IF svc = "routes"
         THEN "Access to 11 major countries including Israel, USA, Canada, UK, and more"
         ELSE "Access to 11 major countries including USA, Canada, UK, and more"
    [] userTier = "elite" ->
         IF svc = "routes"
         THEN "Unlimited access to all countries and routes worldwide"
         ELSE "Unlimited access to all countries and " \o svc \o " worldwide"

\* GET /<svc>/statistics
StatisticsHandler(svc, request) ==
  LET userTier == getUserTier(request)
      subscriptionTier == mapUserTierToSubscriptionTier(userTier)
      statistics == Service_getTierStatistics(svc, subscriptionTier)
  IN  IF statistics.threw THEN Calling(svc, <<"statistics">>)
                                 @@ InternalError(statistics.value)
      ELSE Calling(svc, <<"statistics">>) @@ Json(200, [success |-> TRUE,
                      tier |-> userTier,
                      statistics |->
                        [total |-> statistics.value.total,
                         totalCountries |-> statistics.value.totalCountries,
                         countriesWithData |-> statistics.value.countriesWithData,
                         accessLevel |-> IF subscriptionTier = ELITE
                                         THEN "unlimited" ELSE "restricted",
                         tierBenefits |-> TierBenefits(svc, userTier)]])

\* GET /<svc>/access/:country
AccessHandler(svc, request) ==
  LET userTier == getUserTier(request)
      subscriptionTier == mapUserTierToSubscriptionTier(userTier)
      country == request.params.country
      hasAccess == Service_hasCountryAccess(svc, subscriptionTier, country)
  IN  Calling(svc, <<"hasCountryAccess">>) @@ Json(200, [success |-> TRUE,
                 tier |-> userTier,
                 country |-> country,
                 hasAccess |-> hasAccess,
                 message |-> IF hasAccess
                             THEN "Access granted to " \o country
                             ELSE "Access to " \o country
                                    \o " requires a higher subscription tier"])

\* accessibleCountries.slice(0, 5)
Slice5(arr) == SubSeq(arr, 1, IF Len(arr) < 5 THEN Len(arr) ELSE 5)

\* Mutant: splice(0, 5) takes the elements out of its receiver
ReceiverAfterSlice_splice(arr, start, end) ==
  IF Len(arr) <= end THEN <<>> ELSE SubSeq(arr, end + 1, Len(arr))

\* What slice(start, end) leaves of the array it is called on: slice copies
ReceiverAfterSlice(arr, start, end) == arr

\* The policy objects once the preview handler has answered: for a tier
\* with a list, getAccessibleCountries hands the handler config.countries
\* itself, and the handler calls slice(0, 5) on it
PolicyAfterPreview(svc, request, response) ==
  LET subscriptionTier == mapUserTierToSubscriptionTier(request.params.tier)
  IN  IF response.status = 200 /\ ~tierConfigurations[svc][subscriptionTier].isNull
      THEN [tierConfigurations EXCEPT
              ![svc][subscriptionTier].countries = ReceiverAfterSlice(@, 0, 5)]
      ELSE tierConfigurations

\* GET /<svc>/tier/:tier/preview
PreviewHandler(svc, request) ==
  LET currentUserTier == getUserTier(request)
      previewTier == request.params.tier
      subscriptionTier == mapUserTierToSubscriptionTier(previewTier)
      statistics == Service_getTierStatistics(svc, subscriptionTier)
      accessibleCountries == Service_getAccessibleCountries(svc, subscriptionTier)
  IN  IF statistics.threw THEN Calling(svc, <<"statistics">>)
                                 @@ InternalError(statistics.value)
      ELSE IF accessibleCountries.threw THEN Calling(svc, <<"statistics", "accessibleCountries">>)
                                               @@ InternalError(accessibleCountries.value)
      ELSE Calling(svc, <<"statistics", "accessibleCountries">>)
             @@ Json(200, [success |-> TRUE,
                      currentTier |-> currentUserTier,
                      previewTier |-> previewTier,
                      preview |->
                        [total |-> statistics.value.total,
                         totalCountries |-> statistics.value.totalCountries,
                         sampleCountries |-> Slice5(accessibleCountries.value),
                         allCountries |-> accessibleCountries.value,
                         upgrade |->
                           IF previewTier # currentUserTier
                           THEN [message |-> "Upgrade to " \o previewTier
                                               \o " tier to access this data",
                                 benefits |->
                                   "Get access to "
                                     \o ToString(statistics.value.totalCountries)
                                     \o " countries and "
                                     \o ToString(statistics.value.total) \o " "
                                     \o (IF svc = "routes" THEN "flight routes" ELSE svc)]
                           ELSE Null]])

\* routes/index.ts: GET /
WelcomeHandler(request) == NoCalls @@ Json(200, "Welcome to Secured Air API")

\* routes/index.ts: GET /health (the clock readings of the body are left out)
HealthHandler(request) ==
  NoCalls @@ Json(200, [status |-> "OK", tier |-> getUserTier(request)])

\* Mutant: the cookie holds the bare token, without 'Bearer '
TokenHandler_bareCookie(request) ==
  LET token == JwtManager_generateToken(request.params.tier)
  IN  [calls |-> <<[svc |-> "jwt", op |-> "generateToken"]>>,
       status |-> 200,
       body |-> [message |-> IF ~Falsy(token)
                             THEN "Token set as cookie and returned"
                             ELSE "Free tier - no token needed"],
       cookies |-> IF ~Falsy(token)
                   THEN <<[name |-> "Authorization",
                           value |-> Credential("", token),
                           httpOnly |-> TRUE,
                           maxAge |-> cookieMaxAge,
                           path |-> "/"]>>
                   ELSE <<>>]

\* Mutant: the cookie is named auth_token
TokenHandler_authToken(request) ==
  LET token == JwtManager_generateToken(request.params.tier)
  IN  [calls |-> <<[svc |-> "jwt", op |-> "generateToken"]>>,
       status |-> 200,
       body |-> [message |-> IF ~Falsy(token)
                             THEN "Token set as cookie and returned"
                             ELSE "Free tier - no token needed"],
       cookies |-> IF ~Falsy(token)
                   THEN <<[name |-> "auth_token",
                           value |-> Credential("Bearer", token),
                           httpOnly |-> TRUE,
                           maxAge |-> cookieMaxAge,
                           path |-> "/"]>>
                   ELSE <<>>]

\* routes/index.ts: GET /token/:tier
TokenHandler(request) ==
  LET token == JwtManager_generateToken(request.params.tier)
  IN  [calls |-> <<[svc |-> "jwt", op |-> "generateToken"]>>,
       status |-> 200,
       body |-> [message |-> IF ~Falsy(token)
                             THEN "Token set as cookie and returned"
                             ELSE "Free tier - no token needed"],
       cookies |-> IF ~Falsy(token)
                   THEN <<[name |-> "Authorization",
                           value |-> Credential("Bearer", token),
                           httpOnly |-> TRUE,
                           maxAge |-> cookieMaxAge,
                           path |-> "/"]>>
                   ELSE <<>>]

\* The handler behind a route
Handler(request) ==
  CASE request.route = "list" -> ListHandler(request.svc, request)
    [] request.route = "countries" -> CountriesHandler(request.svc, request)
    [] request.route = "country" -> CountryHandler(request.svc, request)
    [] request.route = "between" -> BetweenHandler(request)
    [] request.route = "statistics" -> StatisticsHandler(request.svc, request)
    [] request.route = "access" -> AccessHandler(request.svc, request)
    [] request.route = "preview" -> PreviewHandler(request.svc, request)
    [] request.route = "welcome" -> WelcomeHandler(request)
    [] request.route = "health" -> HealthHandler(request)
    [] request.route = "token" -> TokenHandler(request)

\* router.get(path, basicAccess, [validateData(schema, 'params'),] handler)
\* `handled` is what the handler sends when the middleware calls next()
Route(request, handled) ==
  LET gate == basicAccess(request)
      valid == validateData(request.params)
  IN  IF ~gate.next THEN NoCalls @@ gate.response
      ELSE IF ~valid.next THEN NoCalls @@ valid.response
      ELSE handled

\* The response of the application to a request
Respond(request) == Route(request, Handler(request))

(***************************************************************************)
(* The server behind HTTP: one action per route                            *)
(***************************************************************************)
\* The claims of a token generateToken signed when the server started
IssuedAtStart(tier) == [tier |-> tier, iat |-> 0, exp |-> expiresIn]

\* Tokens a client can present
TokenInputs ==
  {Jwt(secretKey, IssuedAtStart(tier)) : tier \in UserTier \cup {"admin"}}
    \cup {Jwt(secretKey, [iat |-> 0, exp |-> expiresIn]),
          Jwt(secretKey, [tier |-> "pro", iat |-> 0]),
          Jwt(secretKey, [tier |-> "elite", iat |-> 0,
                          nbf |-> expiresIn \div 2, exp |-> expiresIn + expiresIn \div 2]),
          Jwt("other-key", IssuedAtStart("elite")),
          Malformed}

\* Values of the Authorization cookie
CredentialInputs ==
  {Absent}
    \cup {Credential("Bearer", token) : token \in TokenInputs \cup {EmptyString}}
    \cup {Credential("Basic", Jwt(secretKey, IssuedAtStart("elite"))),
          Credential("", Jwt(secretKey, IssuedAtStart("elite")))}

\* Values of the Authorization header: the cases requireFeature tells apart
HeaderInputs ==
  {Absent,
   Credential("Bearer", Jwt(secretKey, IssuedAtStart("pro"))),
   Credential("Bearer", Jwt(secretKey, IssuedAtStart("elite"))),
   Credential("Bearer", Jwt(secretKey, IssuedAtStart("admin"))),
   Credential("Bearer", Jwt("other-key", IssuedAtStart("elite"))),
   Credential("Bearer", Malformed),
   Credential("Bearer", EmptyString),
   Credential("Basic", Jwt(secretKey, IssuedAtStart("elite")))}

\* What the client can send as its Authorization cookie: a value of its own
\* making or the cookie it was given
CookieInputs ==
  CredentialInputs
    \cup (IF jar # EmptyJar /\ jar[1].name = "Authorization" THEN {jar[1].value} ELSE {})

Request(route, svc, params, cookie, authorization) ==
  [route |-> route, svc |-> svc, params |-> params,
   cookie |-> cookie, authorization |-> authorization]

\* The server is ready for a request or a call.
Waiting == Idle /\ req = NoRequest

\* The server answers a request; no handler assigns server state.
Serve(request, handled) ==
  /\ req' = request
  /\ resp' = Route(request, handled)
  /\ UNCHANGED <<data, call, ret, now, jar, log>>

GetList ==
  /\ Waiting
  /\ \E svc \in Services, cookie \in CookieInputs, authorization \in HeaderInputs :
       LET request == Request("list", svc, <<>>, cookie, authorization)
       IN  Serve(request, ListHandler(svc, request))

GetCountries ==
  /\ Waiting
  /\ \E svc \in Services, cookie \in CookieInputs, authorization \in HeaderInputs :
       LET request == Request("countries", svc, <<>>, cookie, authorization)
       IN  Serve(request, CountriesHandler(svc, request))

GetCountry ==
  /\ Waiting
  /\ \E svc \in Services, country \in CountryInputs,
       cookie \in CookieInputs, authorization \in HeaderInputs :
       LET request == Request("country", svc, [country |-> country], cookie, authorization)
       IN  Serve(request, CountryHandler(svc, request))

GetBetween ==
  /\ Waiting
  /\ \E sourceCountry \in CountryInputs, destinationCountry \in CountryInputs,
       cookie \in CookieInputs, authorization \in HeaderInputs :
       LET request == Request("between", "routes",
                              [sourceCountry |-> sourceCountry,
                               destinationCountry |-> destinationCountry],
                              cookie, authorization)
       IN  Serve(request, BetweenHandler(request))

GetStatistics ==
  /\ Waiting
  /\ \E svc \in Services, cookie \in CookieInputs, authorization \in HeaderInputs :
       LET request == Request("statistics", svc, <<>>, cookie, authorization)
       IN  Serve(request, StatisticsHandler(svc, request))

GetAccess ==
  /\ Waiting
  /\ \E svc \in Services, country \in CountryInputs,
       cookie \in CookieInputs, authorization \in HeaderInputs :
       LET request == Request("access", svc, [country |-> country], cookie, authorization)
       IN  Serve(request, AccessHandler(svc, request))

GetPreview ==
  /\ Waiting
  /\ \E svc \in Services, tier \in TierInputs,
       cookie \in CookieInputs, authorization \in HeaderInputs :
       LET request == Request("preview", svc, [tier |-> tier], cookie, authorization)
       IN  /\ req' = request
           /\ resp' = Route(request, PreviewHandler(svc, request))
           /\ tierConfigurations' = PolicyAfterPreview(svc, request, resp')
           /\ UNCHANGED <<airlines, airports, routes, airportCountryMap,
                          call, ret, now, jar, log>>

GetWelcome ==
  /\ Waiting
  /\ \E cookie \in CookieInputs, authorization \in HeaderInputs :
       LET request == Request("welcome", "index", <<>>, cookie, authorization)
       IN  Serve(request, WelcomeHandler(request))

GetHealth ==
  /\ Waiting
  /\ \E cookie \in CookieInputs, authorization \in HeaderInputs :
       LET request == Request("health", "index", <<>>, cookie, authorization)
       IN  Serve(request, HealthHandler(request))

GetToken ==
  /\ Waiting
  /\ \E tier \in TierInputs, cookie \in CookieInputs, authorization \in HeaderInputs :
       LET request == Request("token", "index", [tier |-> tier], cookie, authorization)
       IN  Serve(request, TokenHandler(request))

\* The client has the response and keeps the cookie it sets, if any, for
\* the cookie's maxAge; the server waits for the next request.
Receive ==
  /\ req # NoRequest
  /\ req' = NoRequest
  /\ resp' = NoResponse
  /\ jar' = IF resp.cookies = <<>> THEN jar
            ELSE <<[name |-> resp.cookies[1].name,
                    value |-> resp.cookies[1].value,
                    expires |-> now + resp.cookies[1].maxAge]>>
  /\ UNCHANGED <<data, call, ret, now, log>>

\* JwtManager.verifyToken called directly
VerifyToken ==
  \E token \in TokenInputs \cup {Undefined, Null, EmptyString}
                \cup (IF jar = EmptyJar THEN {} ELSE {jar[1].value.token}) :
    /\ Waiting
    /\ Invoke("jwt", "verifyToken", <<token>>, Return(JwtManager_verifyToken(token)))

\* JwtManager.validateTierAccess called directly
ValidateTierAccess ==
  /\ Waiting
  /\ \E token \in TokenInputs \cup {Undefined, Null, EmptyString}, requiredTier \in UserTier :
       Invoke("jwt", "validateTierAccess", <<token, requiredTier>>,
              Return(JwtManager_validateTierAccess(token, requiredTier)))

\* JwtManager.generateToken called directly
GenerateToken ==
  \E tier \in UserTier :
    /\ Waiting
    /\ Invoke("jwt", "generateToken", <<tier>>, Return(JwtManager_generateToken(tier)))

\* Half a token lifetime passes; the client drops a cookie past its maxAge
Tick ==
  /\ Waiting
  /\ now < MaxTicks * (expiresIn \div 2)
  /\ now' = now + expiresIn \div 2
  /\ jar' = IF jar # EmptyJar /\ now' >= jar[1].expires THEN EmptyJar ELSE jar
  /\ UNCHANGED <<data, call, ret, req, resp, log>>

\* The server starts on the sample files or on empty ones
InitHttp ==
  /\ \/ airlines = SampleAirlines /\ airports = SampleAirports /\ routes = SampleRoutes
     \/ airlines = <<>> /\ airports = <<>> /\ routes = <<>>
  /\ airportCountryMap = loadAirportCountryMap(airports)
  /\ tierConfigurations = Constructed
  /\ call = NoCall
  /\ ret = Return(<<>>)
  /\ now = 0
  /\ req = NoRequest
  /\ resp = NoResponse
  /\ jar = EmptyJar
  /\ log = NoNotes

NextHttp ==
  \/ GetList
  \/ GetCountries
  \/ GetCountry
  \/ GetBetween
  \/ GetStatistics
  \/ GetAccess
  \/ GetPreview
  \/ GetWelcome
  \/ GetHealth
  \/ GetToken
  \/ Receive
  \/ VerifyToken
  \/ ValidateTierAccess
  \/ GenerateToken
  \/ TakeResult
  \/ Tick

SpecHttp == InitHttp /\ [][NextHttp]_vars

(***************************************************************************)
(* Vocabulary of the properties                                            *)
(***************************************************************************)
Range(seq) == {seq[i] : i \in 1..Len(seq)}

\* The rows of a result appear in the order of the file, none twice
InLoadOrder(seq) == \A i, j \in 1..Len(seq) : i < j => seq[i].row < seq[j].row

\* Strictly ascending in JavaScript's string order: sorted, no duplicates
StrictlySorted(seq) ==
  \A i, j \in 1..Len(seq) : i < j => CodeUnitRank(seq[i]) < CodeUnitRank(seq[j])

ConfigOf(svc) ==
  CASE svc = "airlines" -> AirlinesService_tierConfigurations
    [] svc = "airports" -> AirportsService_tierConfigurations
    [] svc = "routes" -> RoutesService_tierConfigurations

ListPolicy(svc, tier) == ~ConfigOf(svc)[tier].isNull
ListOf(svc, tier) == Range(ConfigOf(svc)[tier].countries)

AccessOf(svc, tier, country) ==
  CASE svc = "airlines" -> AirlinesService_hasCountryAccess(tier, country)
    [] svc = "airports" -> AirportsService_hasCountryAccess(tier, country)
    [] svc = "routes" -> RoutesService_hasCountryAccess(tier, country)

\* The country an airport code resolves to, read off the index
Resolved(code) ==
  IF code \in DOMAIN airportCountryMap THEN airportCountryMap[code] ELSE "Unknown"

\* A loaded route with the two countries its codes resolve to
Enriched(route) ==
  [row |-> route.row, sourceAirport |-> route.sourceAirport,
   destinationAirport |-> route.destinationAirport,
   sourceCountry |-> Resolved(route.sourceAirport),
   destinationCountry |-> Resolved(route.destinationAirport)]

EnrichedRoutes == {Enriched(r) : r \in Range(routes)}

\* The records of a flat (airlines, airports) service
RecordsOf(svc) == IF svc = "airlines" THEN Range(airlines) ELSE Range(airports)

Called(op) == call.op = op /\ call.args[1] \in SubscriptionTier

(***************************************************************************)
(* C1: in each of the three services hasCountryAccess(T, C) is true for    *)
(* the unrestricted tier (ELITE) and otherwise true exactly when C is an   *)
(* element of T's configured list by exact string equality: 'israel' and   *)
(* 'Israel ' are denied for FREE.                                          *)
(***************************************************************************)
C1_HasCountryAccessExact ==
  Called("hasCountryAccess") =>
    LET tier == call.args[1]
        country == call.args[2]
    IN  /\ ~ret.threw
        /\ ret.value \in BOOLEAN
        /\ (tier = ELITE) = ~ListPolicy(call.svc, tier)
        /\ tier = ELITE => ret.value
        /\ tier # ELITE => (ret.value <=> country \in ListOf(call.svc, tier))
        /\ (tier = FREE /\ country \in {"israel", "Israel "}) => ~ret.value
        /\ (tier = FREE /\ country = "Israel") => ret.value

C1_Witness ==
  /\ call = [svc |-> "routes", op |-> "hasCountryAccess", args |-> <<FREE, "Israel ">>]
  /\ ret = Return(FALSE)

(***************************************************************************)
(* C5: in each service byCountry(T, C) throws exactly when                 *)
(* hasCountryAccess(T, C) is false, hence never for ELITE, and the message *)
(* is "Country '<C>' is not accessible with <tier> tier" with the          *)
(* lower-case tier name; otherwise it returns, in load order, exactly the  *)
(* loaded records whose country is C (airlines, airports) or whose         *)
(* resolved source or destination country is C (routes), and the empty     *)
(* list when none match.                                                   *)
(***************************************************************************)
MatchingCountry(svc, country) ==
  IF svc = "routes"
  THEN {r \in EnrichedRoutes : r.sourceCountry = country \/ r.destinationCountry = country}
  ELSE {r \in RecordsOf(svc) : r.country = country}

C5_ByCountry ==
  Called("byCountry") =>
    LET tier == call.args[1]
        country == call.args[2]
    IN  /\ ret.threw <=> ~AccessOf(call.svc, tier, country)
        /\ tier = ELITE => ~ret.threw
        /\ ret.threw =>
             /\ ret.value = "Country '" \o country \o "' is not accessible with "
                              \o tier \o " tier"
             /\ tier \in {"free", "pro"}
        /\ (tier = PRO /\ country = "Mexico") =>
             ret = Throw("Country 'Mexico' is not accessible with pro tier")
        /\ ~ret.threw =>
             /\ Range(ret.value) = MatchingCountry(call.svc, country)
             /\ InLoadOrder(ret.value)
             /\ MatchingCountry(call.svc, country) = {} => ret.value = <<>>

\* PRO asks the routes of Canada and gets two of them, one matching by its
\* source and one by its destination
C5_Witness ==
  /\ call = [svc |-> "routes", op |-> "byCountry", args |-> <<PRO, "Canada">>]
  /\ ~ret.threw
  /\ Len(ret.value) = 2
  /\ ret.value[1].sourceCountry = "Canada" /\ ret.value[1].destinationCountry # "Canada"
  /\ ret.value[2].sourceCountry # "Canada" /\ ret.value[2].destinationCountry = "Canada"

(***************************************************************************)
(* C6: getRoutesBetweenCountries(T, S, D) fails for a list-policy tier     *)
(* exactly when S or D is not in T's list (FREE Israel to Israel succeeds, *)
(* FREE Israel to United States is denied), never fails for ELITE, and on  *)
(* success returns exactly the routes whose resolved source country is S   *)
(* and whose resolved destination country is D.                            *)
(***************************************************************************)
C6_BetweenCountries ==
  Called("betweenCountries") =>
    LET tier == call.args[1]
        sourceCountry == call.args[2]
        destinationCountry == call.args[3]
    IN  /\ ListPolicy("routes", tier) =>
             (ret.threw <=> \/ sourceCountry \notin ListOf("routes", tier)
                            \/ destinationCountry \notin ListOf("routes", tier))
        /\ tier = ELITE => ~ret.threw
        /\ call.args = <<FREE, "Israel", "Israel">> => ~ret.threw
        /\ call.args = <<FREE, "Israel", "United States">> => ret.threw
        /\ ~ret.threw =>
             /\ Range(ret.value) =
                  {r \in EnrichedRoutes : /\ r.sourceCountry = sourceCountry
                                          /\ r.destinationCountry = destinationCountry}
             /\ InLoadOrder(ret.value)

\* PRO asks Canada to Israel while the file also holds the reverse route
C6_Witness ==
  /\ call = [svc |-> "routes", op |-> "betweenCountries",
             args |-> <<PRO, "Canada", "Israel">>]
  /\ ~ret.threw
  /\ Len(ret.value) = 1
  /\ \E r \in EnrichedRoutes : r.sourceCountry = "Israel" /\ r.destinationCountry = "Canada"

(***************************************************************************)
(* C7: for airlines and airports, byTier(T) of a list-policy tier has only *)
(* countries of T's list as group keys, each group holds exactly the       *)
(* loaded records of that country, and no record of a country outside the  *)
(* list is in any group; for ELITE the groups partition the loaded records *)
(* that have a non-empty country.                                          *)
(***************************************************************************)
\* A grouped object: no key twice, each group in load order
WellGrouped(obj) ==
  /\ \A i, j \in 1..Len(obj) : obj[i].key = obj[j].key => i = j
  /\ \A i \in 1..Len(obj) : InLoadOrder(obj[i].items)

C7_ByTierFlat ==
  (Called("byTier") /\ call.svc \in {"airlines", "airports"}) =>
    LET tier == call.args[1]
        records == RecordsOf(call.svc)
        groups == ret.value
    IN  /\ ~ret.threw
        /\ WellGrouped(groups)
        /\ \A i \in 1..Len(groups) :
             /\ ListPolicy(call.svc, tier) => groups[i].key \in ListOf(call.svc, tier)
             /\ Range(groups[i].items) = {r \in records : r.country = groups[i].key}
             /\ groups[i].items # <<>>
        /\ ListPolicy(call.svc, tier) =>
             /\ \A i \in 1..Len(groups) : \A r \in Range(groups[i].items) :
                  r.country \in ListOf(call.svc, tier)
             /\ \A r \in records :
                  r.country \in ListOf(call.svc, tier) => HasKey(groups, r.country)
        /\ ~ListPolicy(call.svc, tier) =>
             /\ UNION {Range(groups[i].items) : i \in 1..Len(groups)}
                  = {r \in records : r.country # ""}
             /\ \A i, j \in 1..Len(groups) :
                  i # j => Range(groups[i].items) \cap Range(groups[j].items) = {}

\* FREE lists airports while the file holds an Israeli and a foreign one
C7_Witness ==
  /\ call = [svc |-> "airports", op |-> "byTier", args |-> <<FREE>>]
  /\ Len(ret.value) = 1
  /\ ret.value[1].key = "Israel"
  /\ \E r \in Range(airports) : r.country = "Mexico"

(***************************************************************************)
(* C8: getRoutesByTier(T) of a list-policy tier contains exactly the       *)
(* routes with at least one resolved endpoint country in T's list and a    *)
(* resolved source country other than 'Unknown', each under its source     *)
(* country: a route whose destination alone is in the list appears under   *)
(* its source country, and a route whose source airport does not resolve   *)
(* appears in no group even when its destination is in the list.           *)
(***************************************************************************)
C8_RoutesByTier ==
  (Called("byTier") /\ call.svc = "routes" /\ ListPolicy("routes", call.args[1])) =>
    LET list == ListOf("routes", call.args[1])
        groups == ret.value
    IN  /\ ~ret.threw
        /\ WellGrouped(groups)
        /\ UNION {Range(groups[i].items) : i \in 1..Len(groups)}
             = {r \in EnrichedRoutes :
                  /\ r.sourceCountry \in list \/ r.destinationCountry \in list
                  /\ r.sourceCountry # "Unknown"}
        /\ \A i \in 1..Len(groups) :
             /\ groups[i].items # <<>>
             /\ \A r \in Range(groups[i].items) : r.sourceCountry = groups[i].key

\* FREE lists routes: Canada to Israel is shown under Canada, and the route
\* from an unknown airport to Israel is shown nowhere
C8_Witness ==
  /\ call = [svc |-> "routes", op |-> "byTier", args |-> <<FREE>>]
  /\ Len(routes) = 2
  /\ Enriched(routes[1]).sourceCountry = "Canada"
  /\ Enriched(routes[1]).destinationCountry = "Israel"
  /\ Enriched(routes[2]).sourceCountry = "Unknown"
  /\ Enriched(routes[2]).destinationCountry = "Israel"
  /\ ret.value = <<[key |-> "Canada", items |-> <<Enriched(routes[1])>>]>>

(***************************************************************************)
(* C9: for every tier and each of the three record kinds, neither          *)
(* 'Unknown' nor the empty string is a group key of byTier(T) or an        *)
(* element of accessibleCountries(ELITE), whatever records are loaded.     *)
(***************************************************************************)
C9_NoUnknownNoEmpty ==
  /\ Called("byTier") =>
       \A i \in 1..Len(ret.value) : ret.value[i].key \notin {"Unknown", ""}
  /\ (Called("accessibleCountries") /\ call.args[1] = ELITE) =>
       \A i \in 1..Len(ret.value) : ret.value[i] \notin {"Unknown", ""}

(***************************************************************************)
(* C10: accessibleCountries(T) of a list-policy tier is the configured     *)
(* list verbatim, in its configured order, whatever is loaded (PRO begins  *)
(* Israel, United States, Canada); for ELITE it is the sorted,             *)
(* duplicate-free list of the countries present in the loaded records      *)
(* (routes: every resolved source or destination country).                 *)
(***************************************************************************)
CountriesPresent(svc) ==
  IF svc = "routes"
  THEN ({r.sourceCountry : r \in EnrichedRoutes}
          \cup {r.destinationCountry : r \in EnrichedRoutes}) \ {"Unknown"}
  ELSE {r.country : r \in RecordsOf(svc)}

C10_AccessibleCountries ==
  Called("accessibleCountries") =>
    LET tier == call.args[1]
    IN  /\ ~ret.threw
        /\ ListPolicy(call.svc, tier) => ret.value = ConfigOf(call.svc)[tier].countries
        /\ tier = FREE => ret.value = <<"Israel">>
        /\ tier = PRO => /\ SubSeq(ret.value, 1, 3) = <<"Israel", "United States", "Canada">>
                         /\ Len(ret.value) = 11
        /\ tier = ELITE =>
             /\ StrictlySorted(ret.value)
             /\ Range(ret.value) = CountriesPresent(call.svc)

\* ELITE lists the countries of two routes given in descending order
C10_Witness ==
  /\ call = [svc |-> "routes", op |-> "accessibleCountries", args |-> <<ELITE>>]
  /\ Len(routes) = 2
  /\ Enriched(routes[1]).sourceCountry = "Israel"
  /\ Enriched(routes[1]).destinationCountry = "Canada"
  /\ ret.value = <<"Canada", "Israel">>

(***************************************************************************)
(* Vocabulary of the properties about credentials                          *)
(***************************************************************************)
DataRoutes == {"list", "countries", "country", "between", "statistics", "access", "preview"}

WellSigned(token) == token.form = "jwt" /\ token.key = secretKey
Expired(token) == HasClaim(token.payload, "exp") /\ now >= token.payload.exp
NotYetActive(token) == HasClaim(token.payload, "nbf") /\ now < token.payload.nbf
KnownTier(token) ==
  HasClaim(token.payload, "tier") /\ token.payload.tier \in {"free", "pro", "elite"}

\* Non-empty, correctly signed, unexpired, with one of the three tiers
Acceptable(token) ==
  ~Falsy(token) /\ WellSigned(token) /\ ~Expired(token) /\ KnownTier(token)

\* Malformed, signed with the wrong key, or expired
BadToken(token) ==
  \/ token.form = "malformed"
  \/ token.form = "jwt" /\ token.key # secretKey
  \/ WellSigned(token) /\ Expired(token)

BadCredential(credential) ==
  credential.present /\ credential.scheme = "Bearer" /\ BadToken(credential.token)

NoCredential(request) == ~request.cookie.present /\ ~request.authorization.present

WithoutCredentials(request) ==
  [request EXCEPT !.cookie = Absent, !.authorization = Absent]

\* The tier a response reports for the caller is FREE
ReportsFree(request, response) ==
  /\ response.status \notin {401, 500}
  /\ request.route \in DataRoutes \ {"preview"} /\ response.status = 200
       => response.body.tier = "free"
  /\ request.route \in {"country", "between"} /\ response.status = 403
       => response.body.currentTier = "free"
  /\ request.route = "preview" /\ response.status = 200
       => response.body.currentTier = "free"

(***************************************************************************)
(* C2: a request with neither an Authorization cookie nor an Authorization *)
(* header is answered without an error as tier FREE, and GET /countries of *)
(* each of the three datasets answers 200 with countries exactly           *)
(* <<"Israel">>, whatever the files hold.                                  *)
(***************************************************************************)
C2_NoCredentialIsFree ==
  (req # NoRequest /\ req.route \in DataRoutes /\ NoCredential(req)) =>
    /\ ReportsFree(req, resp)
    /\ req.route \in {"list", "countries", "statistics", "access"} => resp.status = 200
    /\ req.route = "countries" =>
         /\ resp.body.success
         /\ resp.body.countries = <<"Israel">>
         /\ resp.body.totalCount = 1

C2_Witness ==
  /\ req # NoRequest
  /\ req.route = "countries"
  /\ req.svc = "airports"
  /\ NoCredential(req)
  /\ airports = <<>>
  /\ resp.status = 200
  /\ resp.body.tier = "free"
  /\ resp.body.countries = <<"Israel">>

(***************************************************************************)
(* C3 as stated: a data request whose credential, in the cookie or in the  *)
(* bearer header, is malformed, signed with the wrong key or expired gets  *)
(* the response of the same request without credentials and is never       *)
(* rejected. The bearer header refutes it: requireFeature answers 401.     *)
(***************************************************************************)
C3_BadCredentialAsAbsent ==
  ( /\ req # NoRequest
    /\ req.route \in DataRoutes
    /\ BadCredential(req.cookie) \/ BadCredential(req.authorization)
    /\ ~req.cookie.present \/ BadCredential(req.cookie)
    /\ ~req.authorization.present \/ BadCredential(req.authorization) ) =>
    /\ resp = Respond(WithoutCredentials(req))
    /\ resp.status # 401

(***************************************************************************)
(* C3 amended: a data request whose Authorization cookie carries a         *)
(* malformed, wrongly signed or expired token gets the response of the     *)
(* same request without the cookie, which without a header is a response   *)
(* for tier FREE and never a rejection of the credential; a request whose  *)
(* bearer header carries such a token is answered 401 'Invalid token' with *)
(* the reason verifyToken reports.                                         *)
(***************************************************************************)
C3_BadCookieAsAbsent ==
  (req # NoRequest /\ req.route \in DataRoutes) =>
    /\ BadCredential(req.cookie) =>
         resp = Respond([req EXCEPT !.cookie = Absent])
    /\ BadCredential(req.cookie) /\ ~req.authorization.present =>
         ReportsFree(req, resp)
    /\ BadCredential(req.authorization) =>
         /\ resp.status = 401
         /\ resp.body = [error |-> "Invalid token",
                         message |-> IF /\ WellSigned(req.authorization.token)
                                        /\ Expired(req.authorization.token)
                                     THEN "Token has expired"
                                     ELSE "Invalid token"]

C3_Witness ==
  /\ req # NoRequest
  /\ req.route = "country"
  /\ req.params.country = "Canada"
  /\ ~req.authorization.present
  /\ req.cookie = Credential("Bearer", Jwt(secretKey, IssuedAtStart("elite")))
  /\ BadCredential(req.cookie)
  /\ resp.status = 403
  /\ resp.body.currentTier = "free"

(***************************************************************************)
(* C4: verifyToken reports a token as valid only when it is non-empty,     *)
(* correctly signed, unexpired and carries a tier among free, pro, elite,  *)
(* and then returns the payload and its tier unchanged; it does report     *)
(* such a token as valid unless the token is not yet active. In every      *)
(* other case the result is isValid = FALSE with neither payload nor tier  *)
(* and with the error 'No token provided', 'Invalid token', 'Token has     *)
(* expired' or 'Invalid tier in token' that names the first failing check. *)
(***************************************************************************)
C4_VerifyToken ==
  call.op = "verifyToken" =>
    LET token == call.args[1]
        result == ret.value
    IN  /\ ~ret.threw
        /\ result.isValid => Acceptable(token)
        /\ Acceptable(token) /\ ~NotYetActive(token) => result.isValid
        /\ result.isValid =>
             /\ DOMAIN result = {"isValid", "payload", "tier"}
             /\ result.payload = token.payload
             /\ result.tier = token.payload.tier
        /\ ~result.isValid =>
             /\ DOMAIN result = {"isValid", "error"}
             /\ result.error =
                  CASE Falsy(token) -> "No token provided"
                    [] ~Falsy(token) /\ ~WellSigned(token) -> "Invalid token"
                    [] WellSigned(token) /\ NotYetActive(token) -> "Invalid token"
                    [] WellSigned(token) /\ ~NotYetActive(token) /\ Expired(token) ->
                         "Token has expired"
                    [] OTHER -> "Invalid tier in token"

C4_Witness ==
  /\ call.op = "verifyToken"
  /\ WellSigned(call.args[1])
  /\ KnownTier(call.args[1])
  /\ Expired(call.args[1])
  /\ ret.value = [isValid |-> FALSE, error |-> "Token has expired"]

(***************************************************************************)
(* C11: in each service every country that accessibleCountries(T) returns  *)
(* satisfies hasCountryAccess(T, C); for a tier with a list policy a       *)
(* country that hasCountryAccess(T, C) accepts is in accessibleCountries(T);*)
(* for ELITE hasCountryAccess is true for every country.                   *)
(***************************************************************************)
C11_AccessibleIffAccess ==
  /\ Called("accessibleCountries") =>
       /\ ~ret.threw
       /\ \A i \in 1..Len(ret.value) : AccessOf(call.svc, call.args[1], ret.value[i])
  /\ Called("hasCountryAccess") =>
       LET tier == call.args[1]
           country == call.args[2]
           listed == Service_getAccessibleCountries(call.svc, tier)
       IN  /\ ListPolicy(call.svc, tier) /\ ret.value =>
                ~listed.threw /\ includes(listed.value, country)
           /\ tier = ELITE => ret.value

C11_Witness ==
  /\ call = [svc |-> "airports", op |-> "accessibleCountries", args |-> <<PRO>>]
  /\ ~ret.threw
  /\ includes(ret.value, "Canada")
  /\ AirportsService_hasCountryAccess(PRO, "Canada")

(***************************************************************************)
(* C12: access is monotone in the order FREE < PRO < ELITE: in each        *)
(* service a country that hasCountryAccess accepts for FREE is accepted    *)
(* for PRO, and one accepted for PRO is accepted for ELITE.                *)
(***************************************************************************)
C12_Monotone ==
  (Called("hasCountryAccess") /\ ret.value) =>
    LET tier == call.args[1]
        country == call.args[2]
    IN  /\ tier = FREE => AccessOf(call.svc, PRO, country)
        /\ tier \in {FREE, PRO} => AccessOf(call.svc, ELITE, country)
        /\ ListOf(call.svc, FREE) \subseteq ListOf(call.svc, PRO)

C12_Witness ==
  /\ call = [svc |-> "airlines", op |-> "hasCountryAccess", args |-> <<FREE, "Israel">>]
  /\ ret = Return(TRUE)
  /\ AirlinesService_hasCountryAccess(PRO, "Israel")

(***************************************************************************)
(* C13: for every tier and every loaded data set, the empty one included,  *)
(* getTierStatistics(T) returns without an error, totalCountries is the    *)
(* length of countriesWithData and the number of group keys of byTier(T),  *)
(* the total is the sum of the sizes of byTier(T)'s groups, and            *)
(* countriesWithData holds the group keys sorted without duplicates; an    *)
(* empty data set gives zero totals and an empty list.                     *)
(***************************************************************************)
\* totalAirlines, totalAirports or totalRoutes of a statistics object
TotalOf(svc, statistics) ==
  CASE svc = "airlines" -> statistics.totalAirlines
    [] svc = "airports" -> statistics.totalAirports
    [] svc = "routes" -> statistics.totalRoutes

\* The records a grouped object holds, group by group
RECURSIVE SumOfSizes(_, _)
SumOfSizes(obj, n) ==
  IF n = 0 THEN 0 ELSE SumOfSizes(obj, n - 1) + Len(obj[n].items)

\* The data set of a service is empty
EmptyDataSet(svc) ==
  CASE svc = "airlines" -> airlines = <<>>
    [] svc = "airports" -> airports = <<>>
    [] svc = "routes" -> routes = <<>>

C13_Statistics ==
  Called("statistics") =>
    LET svc == call.svc
        grouped == Service_getByTier(svc, call.args[1])
        statistics == ret.value
    IN  /\ ~ret.threw
        /\ ~grouped.threw
        /\ statistics.totalCountries = Len(statistics.countriesWithData)
        /\ statistics.totalCountries = Len(grouped.value)
        /\ TotalOf(svc, statistics) = SumOfSizes(grouped.value, Len(grouped.value))
        /\ StrictlySorted(statistics.countriesWithData)
        /\ Range(statistics.countriesWithData) = Range(ObjectKeys(grouped.value))
        /\ EmptyDataSet(svc) =>
             /\ TotalOf(svc, statistics) = 0
             /\ statistics.totalCountries = 0
             /\ statistics.countriesWithData = <<>>

C13_Witness ==
  /\ call = [svc |-> "airlines", op |-> "statistics", args |-> <<ELITE>>]
  /\ airlines = <<[row |-> 1, country |-> "Mexico"], [row |-> 2, country |-> "Canada"]>>
  /\ ret = Return([totalAirlines |-> 2, totalCountries |-> 2,
                   countriesWithData |-> <<"Canada", "Mexico">>])

C15_InvalidTierFails ==
  ( /\ call.svc \in {"airlines", "airports", "routes"}
    /\ call.args[1] \notin SubscriptionTier ) =>
    /\ ret.threw
    /\ ret.value = "Invalid subscription tier: " \o call.args[1]

(***************************************************************************)
(* C16: generateToken(FREE) returns no token and GET /token/free sets no   *)
(* cookie; generateToken(PRO) and generateToken(ELITE) return a token, and *)
(* GET /token/pro and /token/elite set it as the Authorization cookie;     *)
(* verifyToken on that token, when issued and for as long as it has not    *)
(* expired, returns isValid = TRUE with the tier it was issued for.        *)
(***************************************************************************)
\* verifyToken accepts the token as one of the given tier
VerifiesAs(token, tier) ==
  JwtManager_verifyToken(token) =
    [isValid |-> TRUE, payload |-> token.payload, tier |-> tier]

C16_IssueThenVerify ==
  /\ call.op = "generateToken" =>
       LET tier == call.args[1]
           token == ret.value
       IN  /\ ~ret.threw
           /\ tier = "free" => token = Null
           /\ tier \in {"pro", "elite"} => ~Falsy(token) /\ VerifiesAs(token, tier)
  /\ (req # NoRequest /\ req.route = "token" /\ resp.status = 200) =>
       LET tier == req.params.tier
       IN  /\ tier = "free" => resp.cookies = <<>>
           /\ tier \in {"pro", "elite"} =>
                /\ Len(resp.cookies) = 1
                /\ resp.cookies[1].name = "Authorization"
                /\ resp.cookies[1].value.scheme = "Bearer"
                /\ VerifiesAs(resp.cookies[1].value.token, tier)
  /\ jar # EmptyJar =>
       LET token == jar[1].value.token
       IN  /\ token.payload.tier \in {"pro", "elite"}
           /\ now < token.payload.exp => VerifiesAs(token, token.payload.tier)

C16_Witness ==
  /\ jar # EmptyJar
  /\ now > jar[1].value.token.payload.iat
  /\ now < jar[1].value.token.payload.exp
  /\ call = [svc |-> "jwt", op |-> "verifyToken", args |-> <<jar[1].value.token>>]
  /\ ret.value.isValid
  /\ ret.value.tier = "pro"

(***************************************************************************)
(* Vocabulary of the properties about denials                              *)
(***************************************************************************)
\* The request got past basicAccess and validateData
Handled(request, response) ==
  /\ request # NoRequest
  /\ response.status \notin {400, 401}

\* The tier the data routers resolve for the request
SubscriptionOf(request) == mapUserTierToSubscriptionTier(getUserTier(request))

(***************************************************************************)
(* C17 as stated: a single-country endpoint that denies a request answers  *)
(* 403 with the error "Country '<c>' is not accessible with <tier> tier",  *)
(* and the country-pair endpoint that denies answers 403 with the pair's   *)
(* '... requires a higher subscription tier' reason. The single-country    *)
(* endpoints refute it: their 403 carries another text.                    *)
(***************************************************************************)
C17_DenialCarriesReason ==
  /\ (Handled(req, resp) /\ req.route = "country"
        /\ ~Service_hasCountryAccess(req.svc, SubscriptionOf(req), req.params.country)) =>
       /\ resp.status = 403
       /\ resp.body.error =
            NotAccessible(SubscriptionOf(req), req.params.country).value
  /\ (Handled(req, resp) /\ req.route = "between"
        /\ \/ ~RoutesService_hasCountryAccess(SubscriptionOf(req), req.params.sourceCountry)
           \/ ~RoutesService_hasCountryAccess(SubscriptionOf(req),
                                              req.params.destinationCountry)) =>
       /\ resp.status = 403
       /\ resp.body.error =
            PairDenied(req.params.sourceCountry, req.params.destinationCountry).value

(***************************************************************************)
(* C17 amended: a single-country endpoint that denies a request answers    *)
(* 403 with the error "Access to '<c>' requires a higher subscription      *)
(* tier", the caller's tier and the required tier; the service's "Country  *)
(* '<c>' is not accessible with <tier> tier" never reaches a response. The *)
(* country-pair endpoint that denies answers 403 with the reason the       *)
(* service gives for the pair. Neither endpoint answers 403 otherwise.     *)
(***************************************************************************)
C17_DenialResponses ==
  /\ (Handled(req, resp) /\ req.route = "country") =>
       LET country == req.params.country
           denied == ~Service_hasCountryAccess(req.svc, SubscriptionOf(req), country)
       IN  /\ denied <=> resp.status = 403
           /\ denied =>
                /\ resp.body =
                     [success |-> FALSE,
                      error |-> "Access to '" \o country
                                  \o "' requires a higher subscription tier",
                      currentTier |-> getUserTier(req),
                      requiredTier |-> IF country = FreeCountryOf(req.svc)
                                       THEN "free" ELSE "pro"]
                /\ resp.body.error #
                     NotAccessible(SubscriptionOf(req), country).value
  /\ (Handled(req, resp) /\ req.route = "between") =>
       LET source == req.params.sourceCountry
           destination == req.params.destinationCountry
           decision == RoutesService_getRoutesBetweenCountries(SubscriptionOf(req),
                                                               source, destination)
           denied == \/ ~RoutesService_hasCountryAccess(SubscriptionOf(req), source)
                     \/ ~RoutesService_hasCountryAccess(SubscriptionOf(req), destination)
       IN  /\ denied <=> resp.status = 403
           /\ denied <=> decision.threw
           /\ denied =>
                /\ resp.body.success = FALSE
                /\ resp.body.error = decision.value
                /\ resp.body.error = PairDenied(source, destination).value

C17_Witness ==
  /\ req # NoRequest
  /\ req.route = "country"
  /\ req.svc = "airlines"
  /\ req.params.country = "Canada"
  /\ NoCredential(req)
  /\ resp.status = 403
  /\ resp.body.error = "Access to 'Canada' requires a higher subscription tier"
  /\ resp.body.currentTier = "free"

(***************************************************************************)
(* C18 as stated: a request to /token/:tier or to a /tier/:tier/preview    *)
(* endpoint whose tier parameter is not free, pro or elite is answered 400 *)
(* by validation, and its handling invokes neither generateToken nor a     *)
(* service method. A request that also carries a bearer token that does    *)
(* not verify refutes it: basicAccess runs first and answers 401.          *)
(***************************************************************************)
TierRequest(request) == request # NoRequest /\ request.route \in {"token", "preview"}

C18_InvalidTierIs400 ==
  (TierRequest(req) /\ req.params.tier \notin UserTier) =>
    /\ resp.status = 400
    /\ resp.calls = <<>>
    /\ resp.cookies = <<>>

(***************************************************************************)
(* C18 amended: such a request is answered 400 'Invalid data' by           *)
(* validation, unless its bearer header carries a token that does not      *)
(* verify, in which case the feature middleware has already answered 401;  *)
(* either way its handling invokes neither generateToken nor a service     *)
(* method and sets no cookie, whereas a request with a valid tier that is  *)
(* answered 200 does invoke them.                                          *)
(***************************************************************************)
C18_InvalidTierRejected ==
  TierRequest(req) =>
    LET token == BearerToken(req.authorization)
        rejected == ~Falsy(token) /\ ~JwtManager_verifyToken(token).isValid
    IN  /\ req.params.tier \notin UserTier =>
             /\ resp.status = IF rejected THEN 401 ELSE 400
             /\ resp.status = 400 => resp.body.error = "Invalid data"
             /\ resp.calls = <<>>
             /\ resp.cookies = <<>>
        /\ req.params.tier \in UserTier =>
             /\ resp.status = IF rejected THEN 401 ELSE 200
             /\ resp.status = 200 => resp.calls # <<>>

C18_Witness ==
  /\ req # NoRequest
  /\ req.route = "token"
  /\ req.params.tier = "admin"
  /\ ~req.authorization.present
  /\ resp.status = 400
  /\ resp.body.error = "Invalid data"
  /\ resp.calls = <<>>
  /\ resp.cookies = <<>>

RejectedHeader(request) ==
  LET token == BearerToken(request.authorization)
  IN  ~Falsy(token) /\ ~JwtManager_verifyToken(token).isValid

CanadaRequest(request) ==
  /\ request # NoRequest
  /\ request.route = "country"
  /\ request.svc = "airlines"
  /\ request.params.country = "Canada"
  /\ ~request.authorization.present

\* The cookie of the request is the one the client holds from GET /token/pro
ReplaysProCookie(request) ==
  /\ jar # EmptyJar
  /\ request.cookie = jar[1].value
  /\ jar[1].value.token.payload.tier = "pro"

C20_ReplayedCookieServesPro ==
  CanadaRequest(req) =>
    /\ ReplaysProCookie(req) =>
         /\ resp.status = 200
         /\ resp.body.success
         /\ resp.body.tier = "pro"
         /\ resp.body.country = "Canada"
         /\ resp.body.records =
              SelectSeq(airlines, LAMBDA airline : airline.country = "Canada")
         /\ resp.body.count = Len(resp.body.records)
    /\ ~req.cookie.present =>
         /\ resp.status = 403
         /\ ~resp.body.success
         /\ resp.body.currentTier = "free"

C20_Witness ==
  /\ CanadaRequest(req)
  /\ ReplaysProCookie(req)
  /\ now > 0
  /\ airlines = SampleAirlines
  /\ resp.status = 200
  /\ resp.body.tier = "pro"
  /\ resp.body.records = <<[row |-> 1, country |-> "Canada"]>>

(***************************************************************************)
(* C21 as stated: the token GET /token/:tier issues for pro or elite is    *)
(* set as an HTTP-only cookie named auth_token. The name refutes it: the   *)
(* cookie is named Authorization.                                          *)
(***************************************************************************)
IssuesToken(request, response) ==
  /\ request # NoRequest
  /\ request.route = "token"
  /\ response.status = 200
  /\ request.params.tier \in {"pro", "elite"}

ReportedTier(request, response) ==
  IF request.route = "preview" \/ response.status = 403
  THEN response.body.currentTier
  ELSE response.body.tier

\* The cookie of the request is the one the client holds
ReplaysCookie(request) ==
  /\ jar # EmptyJar
  /\ request.cookie = jar[1].value

C22_ReadOnlyAfterConstruction ==
  /\ [](tierConfigurations = Constructed)
  /\ [][UNCHANGED <<airlines, airports, routes, airportCountryMap,
                    tierConfigurations>>]_vars

C22_Witness ==
  /\ req # NoRequest
  /\ req.route = "preview"
  /\ req.svc = "routes"
  /\ req.params.tier = "pro"
  /\ resp.status = 200
  /\ resp.body.preview.allCountries = tierConfigurations.routes[PRO].countries
  /\ Len(resp.body.preview.sampleCountries) = 5
  /\ Len(tierConfigurations.routes[PRO].countries) = 11

(***************************************************************************)
(* C23: for every tier, ELITE included, the country name 'Unknown' is      *)
(* never granted: hasCountryAccess(T, 'Unknown') is false, and neither     *)
(* getRoutesByCountry(T, 'Unknown') nor getRoutesBetweenCountries with     *)
(* 'Unknown' on a side returns a route. ELITE refutes it: its policy has   *)
(* no list, so every name is granted and the routes with an unresolved     *)
(* airport are returned.                                                   *)
(***************************************************************************)
C23_UnknownNeverGranted ==
  /\ (Called("hasCountryAccess") /\ call.args[2] = "Unknown") =>
       ~ret.threw /\ ret.value = FALSE
  /\ (call.svc = "routes" /\ Called("byCountry") /\ call.args[2] = "Unknown") =>
       ret.threw \/ ret.value = <<>>
  /\ (call.svc = "routes" /\ Called("betweenCountries")
        /\ "Unknown" \in {call.args[2], call.args[3]}) =>
       ret.threw \/ ret.value = <<>>

(***************************************************************************)
(* C24: the three services apply one policy: whatever service answers      *)
(* hasCountryAccess(T, C), the airlines, airports and routes services all  *)
(* give that answer for T and C, and for a list-policy tier the three      *)
(* give the same accessibleCountries(T), element by element.               *)
(***************************************************************************)
C24_OnePolicy ==
  /\ Called("hasCountryAccess") =>
       LET tier == call.args[1]
           country == call.args[2]
       IN  /\ ~ret.threw
           /\ AirlinesService_hasCountryAccess(tier, country) = ret.value
           /\ AirportsService_hasCountryAccess(tier, country) = ret.value
           /\ RoutesService_hasCountryAccess(tier, country) = ret.value
  /\ (Called("accessibleCountries") /\ call.args[1] \in {FREE, PRO}) =>
       LET tier == call.args[1]
       IN  /\ ~ret.threw
           /\ AirlinesService_getAccessibleCountries(tier) = ret
           /\ AirportsService_getAccessibleCountries(tier) = ret
           /\ RoutesService_getAccessibleCountries(tier) = ret

C24_Witness ==
  /\ call.svc = "routes"
  /\ Called("accessibleCountries")
  /\ call.args[1] = PRO
  /\ Len(ret.value) = 11
  /\ AirportsService_getAccessibleCountries(PRO) = ret
  /\ AirlinesService_hasCountryAccess(PRO, ret.value[11])
  /\ ~AirlinesService_hasCountryAccess(FREE, ret.value[11])

(***************************************************************************)
(* C25: a token that generateToken issued for pro or elite verifies, with  *)
(* its tier, at every clock value before its exp and at none from its exp  *)
(* on, on a direct verifyToken call and as the cookie of a data request    *)
(* alike, whatever tokens were issued and requests served in between:      *)
(* nothing but the token and the clock decides.                            *)
(***************************************************************************)
\* A token as generateToken signs it for pro or elite at some clock value
Issuable(token) ==
  /\ WellSigned(token)
  /\ DOMAIN token.payload = {"tier", "iat", "exp"}
  /\ token.payload.tier \in {"pro", "elite"}
  /\ token.payload.exp = token.payload.iat + expiresIn

C25_ValidUntilExpiry ==
  /\ (call.op = "verifyToken" /\ Issuable(call.args[1])) =>
       LET token == call.args[1]
       IN  IF now < token.payload.exp
           THEN ret = Return([isValid |-> TRUE, payload |-> token.payload,
                              tier |-> token.payload.tier])
           ELSE ret = Return([isValid |-> FALSE, error |-> "Token has expired"])
  /\ (Handled(req, resp) /\ req.route \in DataRoutes
        /\ req.cookie.present /\ req.cookie.scheme = "Bearer"
        /\ Issuable(req.cookie.token)) =>
       /\ resp.status \in {200, 403}
       /\ ReportedTier(req, resp) = IF now < req.cookie.token.payload.exp
                                    THEN req.cookie.token.payload.tier
                                    ELSE "free"

\* The first token still verifies after the client was issued a later one
C25_Witness ==
  /\ call = [svc |-> "jwt", op |-> "verifyToken",
             args |-> <<Jwt(secretKey, IssuedAtStart("pro"))>>]
  /\ jar # EmptyJar
  /\ jar[1].value.token.payload.iat > 0
  /\ jar[1].value.token.payload.tier = "elite"
  /\ now < expiresIn
  /\ ret.value.isValid
  /\ ret.value.tier = "pro"

(***************************************************************************)
(* C26: validateTierAccess(token, R) is valid exactly when R is free, and  *)
(* then it reports tier free and nothing of the token, or the token        *)
(* verifies and its tier is at least R in the order free < pro < elite,    *)
(* and then it is verifyToken's result. For R other than free a missing    *)
(* token is refused with '<R> tier requires authentication', a token that  *)
(* does not verify with verifyToken's result, and a lower tier with        *)
(* 'Insufficient permissions. Required: <R>, Current: <tier>'.             *)
(***************************************************************************)
AtLeast(tier, requiredTier) ==
  \/ requiredTier = "free"
  \/ requiredTier = "pro" /\ tier \in {"pro", "elite"}
  \/ requiredTier = "elite" /\ tier = "elite"

C26_ValidateTierAccess ==
  call.op = "validateTierAccess" =>
    LET token == call.args[1]
        requiredTier == call.args[2]
        result == ret.value
    IN  /\ ~ret.threw
        /\ result.isValid <=>
             \/ requiredTier = "free"
             \/ Acceptable(token) /\ ~NotYetActive(token)
                  /\ AtLeast(token.payload.tier, requiredTier)
        /\ requiredTier = "free" => result = [isValid |-> TRUE, tier |-> "free"]
        /\ requiredTier # "free" =>
             /\ Falsy(token) =>
                  result = [isValid |-> FALSE,
                            error |-> requiredTier \o " tier requires authentication"]
             /\ (~Falsy(token) /\ ~JwtManager_verifyToken(token).isValid) =>
                  /\ result = JwtManager_verifyToken(token)
                  /\ result.error \in {"Invalid token", "Token has expired",
                                       "Invalid tier in token"}
             /\ (Acceptable(token) /\ ~NotYetActive(token)
                   /\ ~AtLeast(token.payload.tier, requiredTier)) =>
                  result = [isValid |-> FALSE,
                            error |-> "Insufficient permissions. Required: "
                                        \o requiredTier \o ", Current: "
                                        \o token.payload.tier]
             /\ result.isValid =>
                  result = [isValid |-> TRUE, payload |-> token.payload,
                            tier |-> token.payload.tier]

C26_Witness ==
  /\ call.op = "validateTierAccess"
  /\ call.args = <<Jwt(secretKey, IssuedAtStart("pro")), "elite">>
  /\ now < expiresIn
  /\ ret.value = [isValid |-> FALSE,
                  error |-> "Insufficient permissions. Required: elite, Current: pro"]

(***************************************************************************)
(* C27: the tier that filters the data is taken from the Authorization     *)
(* cookie alone: a data request with a valid pro or elite bearer header    *)
(* and no cookie is served as free, one with a valid cookie and no header  *)
(* is served at the cookie's tier, and the header decides nothing but      *)
(* whether the middleware answers 401: a request it lets through gets the  *)
(* response of the same request without the header.                        *)
(***************************************************************************)
C27_TierFromCookieOnly ==
  (req # NoRequest /\ req.route \in DataRoutes) =>
    /\ resp.status = 401 <=> RejectedHeader(req)
    /\ ~RejectedHeader(req) => resp = Respond([req EXCEPT !.authorization = Absent])
    /\ (~req.cookie.present /\ Acceptable(BearerToken(req.authorization))) =>
         ReportsFree(req, resp)
    /\ (~req.authorization.present /\ resp.status # 400 /\ req.cookie.present
          /\ req.cookie.scheme = "Bearer" /\ Acceptable(req.cookie.token)
          /\ ~NotYetActive(req.cookie.token)) =>
         /\ resp.status \in {200, 403}
         /\ ReportedTier(req, resp) = req.cookie.token.payload.tier

C27_Witness ==
  /\ req # NoRequest
  /\ req.route = "country"
  /\ req.svc = "airports"
  /\ req.params.country = "Canada"
  /\ ~req.cookie.present
  /\ req.authorization = Credential("Bearer", Jwt(secretKey, IssuedAtStart("pro")))
  /\ Acceptable(req.authorization.token)
  /\ resp.status = 403
  /\ resp.body.currentTier = "free"

(***************************************************************************)
(* C28: whenever a country or country-pair endpoint answers 403, the       *)
(* requiredTier of the response is a tier whose policy grants the          *)
(* requested country (both countries of a pair) and is strictly above the  *)
(* currentTier of the same response. A country outside the PRO list        *)
(* refutes it: the handlers report requiredTier pro for every country but  *)
(* Israel.                                                                 *)
(***************************************************************************)
C28_RequiredTierGrants ==
  (req # NoRequest /\ req.route \in {"country", "between"} /\ resp.status = 403) =>
    LET requiredTier == resp.body.requiredTier
        currentTier == resp.body.currentTier
    IN  /\ requiredTier \in UserTier
        /\ tierHierarchy(requiredTier) > tierHierarchy(currentTier)
        /\ req.route = "country" =>
             Service_hasCountryAccess(req.svc, requiredTier, req.params.country)
        /\ req.route = "between" =>
             /\ RoutesService_hasCountryAccess(requiredTier, req.params.sourceCountry)
             /\ RoutesService_hasCountryAccess(requiredTier,
                                               req.params.destinationCountry)

(***************************************************************************)
(* C29 as stated: every route a list-policy tier obtains from              *)
(* getRoutesByTier or getRoutesByCountry has both its resolved source      *)
(* country and its resolved destination country in the tier's list. A      *)
(* route with one endpoint in the list refutes it: both methods match      *)
(* either endpoint.                                                        *)
(***************************************************************************)
ObtainedRoutes ==
  IF call.op = "byTier"
  THEN UNION {Range(ret.value[i].items) : i \in 1..Len(ret.value)}
  ELSE Range(ret.value)

ListTierObtainsRoutes ==
  /\ call.svc = "routes"
  /\ Called("byTier") \/ Called("byCountry")
  /\ ListPolicy("routes", call.args[1])
  /\ ~ret.threw

C29_BothEndpointsInList ==
  ListTierObtainsRoutes =>
    \A r \in ObtainedRoutes :
      /\ r.sourceCountry \in ListOf("routes", call.args[1])
      /\ r.destinationCountry \in ListOf("routes", call.args[1])

(***************************************************************************)
(* C29 amended: every route a list-policy tier obtains from                *)
(* getRoutesByTier or getRoutesByCountry has at least one of its resolved  *)
(* source and destination countries in the tier's list, for                *)
(* getRoutesByCountry the requested country; the other endpoint is not     *)
(* examined, so a route is returned even when getRoutesBetweenCountries    *)
(* denies its own pair to the same tier.                                   *)
(***************************************************************************)
C29_OneEndpointInList ==
  ListTierObtainsRoutes =>
    LET list == ListOf("routes", call.args[1])
    IN  /\ \A r \in ObtainedRoutes :
             r.sourceCountry \in list \/ r.destinationCountry \in list
        /\ call.op = "byCountry" =>
             /\ call.args[2] \in list
             /\ \A r \in ObtainedRoutes :
                  call.args[2] \in {r.sourceCountry, r.destinationCountry}
        /\ call.op = "byTier" =>
             \A r \in EnrichedRoutes :
               (r.sourceCountry \in list /\ r.destinationCountry \notin list)
                 => r \in ObtainedRoutes

\* FREE obtains the route from Canada to Israel, whose pair is denied to it
C29_Witness ==
  /\ ListTierObtainsRoutes
  /\ call.op = "byCountry"
  /\ call.args = <<FREE, "Israel">>
  /\ \E r \in ObtainedRoutes :
       /\ r.sourceCountry = "Canada"
       /\ r.destinationCountry = "Israel"
       /\ RoutesService_getRoutesBetweenCountries(FREE, "Canada", "Israel").threw

(***************************************************************************)
(* C30: for each dataset the records visible through byTier grow with the  *)
(* tier: every group of byTier(FREE) is contained in the group of the same *)
(* key of byTier(PRO), and every group of byTier(PRO) in the group of the  *)
(* same key of byTier(ELITE); and the totalCountries and the record count  *)
(* of statistics do not decrease from FREE to PRO to ELITE.                *)
(***************************************************************************)
TierAbove(tier) == IF tier = FREE THEN PRO ELSE ELITE

StatisticsOf(svc, tier) ==
  CASE svc = "airlines" -> AirlinesService_getTierStatistics(tier)
    [] svc = "airports" -> AirportsService_getTierStatistics(tier)
    [] svc = "routes" -> RoutesService_getTierStatistics(tier)

\* Every group of lower is part of the group of the same key of upper
GroupsWithin(lower, upper) ==
  \A i \in 1..Len(lower) :
    \E j \in 1..Len(upper) :
      /\ upper[j].key = lower[i].key
      /\ Range(lower[i].items) \subseteq Range(upper[j].items)

C30_VisibleRecordsGrow ==
  /\ Called("byTier") =>
       LET above == Service_getByTier(call.svc, TierAbove(call.args[1]))
       IN  /\ ~ret.threw
           /\ ~above.threw
           /\ GroupsWithin(ret.value, above.value)
  /\ Called("statistics") =>
       LET above == StatisticsOf(call.svc, TierAbove(call.args[1]))
       IN  /\ ~ret.threw
           /\ ~above.threw
           /\ ret.value.totalCountries <= above.value.totalCountries
           /\ TotalOf(call.svc, ret.value) <= TotalOf(call.svc, above.value)

\* PRO sees the Israeli airline FREE sees, and a Canadian one besides
C30_Witness ==
  /\ call = [svc |-> "airlines", op |-> "byTier", args |-> <<FREE>>]
  /\ airlines = <<[row |-> 1, country |-> "Canada"], [row |-> 2, country |-> "Israel"]>>
  /\ ret.value = <<[key |-> "Israel", items |-> <<[row |-> 2, country |-> "Israel"]>>]>>
  /\ Len(AirlinesService_getAirlinesByTier(PRO).value) = 2
  /\ GroupsWithin(ret.value, AirlinesService_getAirlinesByTier(PRO).value)

====
